---- MODULE Spec2Model ----
(***************************************************************************)
(* Verification model of the company-comparables function app:             *)
(*   - SearchService (src/src/services/searchService.js): token cache,     *)
(*     result cache, statistics, searchWeb / getAccessToken /              *)
(*     searchCompanyInfo, stepped at their await points;                   *)
(*   - the findComparables scoring functions and the endpoint handlers.    *)
(* Time is counted in minutes (one tick of `now` = 60 000 ms).             *)
(***************************************************************************)
EXTENDS Integers, Sequences, FiniteSets, TLC

VARIABLES
    now,                \* Date.now(), in minutes
    settings,           \* the environment variables that are set
    configurationError, \* this.configurationError (TRUE when recorded)
    accessToken,        \* this.accessToken (None or the token)
    tokenExpiry,        \* this.tokenExpiry (None or a time)
    cache,              \* this.cache: cache key -> [data, timestamp]
    stats,              \* this.stats
    calls,              \* the invocations in progress, one per slot
    started,            \* number of top-level invocations started so far
    nextId,             \* next identity given out by the token endpoint
    horizon,            \* the last value the clock takes in this behaviour
    failures,           \* number of requests the environment has failed so far
    lastStore,          \* history: the token response last written to the token cache
    filled,             \* history: cache key -> the backend response that last filled it
    scoring,            \* one calculateSimilarityScore application: inputs and result
    handler,            \* one HTTP request being handled by an endpoint
    evaluation          \* one application of a helper function: arguments and result

svcVars == <<now, settings, configurationError, accessToken, tokenExpiry, cache,
             stats, calls, started, nextId, horizon, failures, lastStore, filled>>

appVars == <<scoring, handler, evaluation>>
vars == <<svcVars, appVars>>

\* null / undefined, for each type of value
NoToken == [id |-> 0, issuedAt |-> 0, expiresIn |-> 0]
NoTime == -1
NoFocus == "null"
NoResult == [shape |-> "pending"]
NoMsg == [kind |-> "none"]

----------------------------------------------------------------------------
(* Bounds of the model *)

NCalls == 2          \* concurrent invocation slots
MaxStarted == 2      \* top-level invocations per behaviour
MaxTime == 2         \* last value of the clock, concurrent invocations
MaxSequentialTime == 6   \* last value of the clock, one invocation at a time
MaxFailures == 2     \* requests the token endpoint and the backend fail per behaviour
MaxHandlerFailures == 1   \* the same, while an endpoint handles a request

Calls == 1..NCalls

----------------------------------------------------------------------------
(* Program constants, in minutes *)

CacheTimeout == 5          \* this.cacheTimeout = 5 * 60 * 1000
TokenMargin == 1           \* the 60000 ms subtracted from the token lifetime

RequiredSettings == {"SEARXNG_URL", "CLIENT_ID", "CLIENT_SECRET", "TENANT_ID", "TOKEN_URL"}

\* constructor: configurationError is recorded when a required setting is falsy
MissingFourOnly(env) == {"SEARXNG_URL", "CLIENT_ID", "CLIENT_SECRET", "TENANT_ID"} \ env # {}
HasConfigurationError(env) == RequiredSettings \ env # {}

\* this.focusModes
focusModes ==
    [financialSearch |->
        [engines |-> "google,duckduckgo,yahoo", categories |-> "general",
         keywords |-> <<"finance", "financial", "revenue", "earnings", "profit", "valuation">>,
         description |-> "Recherche optimisee pour informations financieres"],
     companyResearch |->
        [engines |-> "google,duckduckgo", categories |-> "general",
         keywords |-> <<"company", "entreprise", "societe", "business", "profile">>,
         description |-> "Profil et informations d'entreprise"],
     marketAnalysis |->
        [engines |-> "google,yahoo", categories |-> "general",
         keywords |-> <<"market", "marche", "sector", "secteur", "industry", "industrie">>,
         description |-> "Analyse de marche et secteur"],
     competitorAnalysis |->
        [engines |-> "google,duckduckgo", categories |-> "general",
         keywords |-> <<"competitor", "concurrence", "competitive", "comparison", "comparaison">>,
         description |-> "Analyse concurrentielle et comparaisons"]]

RegisteredModes == DOMAIN focusModes

\* String.prototype.toLowerCase on the words the model uses
toLowerCase(w) ==
    CASE w = "Revenue" -> "revenue"
      [] w = "Acme" -> "acme"
      [] w = "MARKET" -> "market"
      [] w = "Technology" -> "technology"
      [] w = "TECHNOLOGY" -> "technology"
      [] w = "Consulting" -> "consulting"
      [] w = "Finance" -> "finance"
      [] w = "Retail" -> "retail"
      [] w = "Globex" -> "globex"
      [] w = "GLOBEX" -> "globex"
      [] w = "Hooli" -> "hooli"
      [] w = "Umbrella" -> "umbrella"
      [] w = "Acme SA" -> "acme sa"
      [] w = "ACME SA" -> "acme sa"
      [] w = "The Firm" -> "the firm"
      [] w = "Sitecore" -> "sitecore"
      [] w = "Ab" -> "ab"
      [] w = "A" -> "a"
      [] w = "Acme Corp" -> "acme corp"
      [] w = "ACME CORP" -> "acme corp"
      [] w = "Acme-Corp" -> "acme-corp"
      [] OTHER -> w

\* queryLower.includes(keyword): a query is a sequence of words; the keyword
\* occurs when it is a word of the query or a substring of one
ProperSubstrings == {<<"competitor", "competitors">>, <<"market", "markets">>}
Includes(query, keyword) ==
    \E i \in 1..Len(query) :
        \/ toLowerCase(query[i]) = keyword
        \/ <<keyword, toLowerCase(query[i])>> \in ProperSubstrings

\* detectOptimalFocus: the patterns table, in its iteration order
patternModes == <<"financialSearch", "marketAnalysis", "competitorAnalysis">>
patterns ==
    [financialSearch |-> <<"finance", "financial", "revenue", "chiffre d'affaires", "profit", "valuation">>,
     marketAnalysis |-> <<"market", "marche", "sector", "secteur", "industry", "industrie">>,
     competitorAnalysis |-> <<"competitor", "concurrence", "competitive", "comparison", "comparable">>]

KeywordScore(query, keywords) ==
    Cardinality({i \in 1..Len(keywords) : Includes(query, keywords[i])})

RECURSIVE FocusLoop(_, _, _, _)
FocusLoop(query, i, bestMatch, maxScore) ==
    IF i > Len(patternModes) THEN bestMatch
    ELSE LET score == KeywordScore(query, patterns[patternModes[i]])
         IN IF score > maxScore
            THEN FocusLoop(query, i + 1, patternModes[i], score)
            ELSE FocusLoop(query, i + 1, bestMatch, maxScore)

detectOptimalFocus(query) == FocusLoop(query, 1, "companyResearch", 0)

\* applySearchFocus: params is a record [query, options, engines, categories]
applySearchFocusAllKeywords(params, focusMode) ==
    IF focusMode \notin DOMAIN focusModes THEN params
    ELSE [params EXCEPT
             !.engines = focusModes[focusMode].engines,
             !.categories = focusModes[focusMode].categories,
             !.query = params.query \o focusModes[focusMode].keywords]
applySearchFocus(params, focusMode) ==
    IF focusMode \notin RegisteredModes THEN params
    ELSE LET focus == focusModes[focusMode]
         IN [params EXCEPT
                !.engines = focus.engines,
                !.categories = focus.categories,
                !.query = IF Len(focus.keywords) > 0
                          THEN params.query \o SubSeq(focus.keywords, 1, 2)
                          ELSE params.query]

focusDescription(focusMode) ==
    IF focusMode \in RegisteredModes THEN focusModes[focusMode].description
    ELSE "Mode general"

\* const searchParams = { query, ...options }
searchParams(query, options) ==
    [query |-> query, options |-> options,
     engines |-> options.engines, categories |-> options.categories]

\* cacheKey = `web_${optimizedParams.query}_${JSON.stringify(optimizedParams)}_${focusMode}`
CacheKey(optimizedParams, focusMode) == <<optimizedParams.query, optimizedParams, focusMode>>

\* cached && (Date.now() - cached.timestamp < this.cacheTimeout)
IsFreshInclusive(entry, t) == t - entry.timestamp <= CacheTimeout
IsFresh(entry, t) == t - entry.timestamp < CacheTimeout

\* this.accessToken && this.tokenExpiry && Date.now() < this.tokenExpiry
TokenValidInclusive(token, expiry, t) == token.id # 0 /\ expiry # NoTime /\ t <= expiry
TokenValid(token, expiry, t) == token.id # 0 /\ expiry # NoTime /\ t < expiry

\* this.tokenExpiry = Date.now() + (data.expires_in * 1000) - 60000
ExpiryOfCachedToken(data, t) ==
    IF accessToken.id # 0 THEN t + accessToken.expiresIn - TokenMargin
    ELSE t + data.expiresIn - TokenMargin
ExpiryOf(data, t) == t + data.expiresIn - TokenMargin

----------------------------------------------------------------------------
(* detectCompanyGeography: the markers are substrings of the lowercased name *)

CompanyNames == {"Acme SA", "Globex Ltd"}

NameMarkers(name) ==
    CASE name = "Acme SA" -> {" sa"}
      [] name = "Globex Ltd" -> {"ltd"}
      [] name = "France Telecom Ltd" -> {"france", "ltd"}
      [] name = "Initech Inc" -> {" inc"}
      [] name = "demo corp" -> {" corp"}
      [] OTHER -> {}

FrenchMarkers == {".pa", " sa", " sas", " sarl", " sasu", "france", "francais", "societe"}
BritishMarkers == {"ltd", "plc", "british", "uk", ".co.uk"}
AmericanMarkers == {" inc", " corp", " llc", "corporation", "usa", "america"}

\* The rule groups in the other order: United Kingdom before France
geographyBritishFirst(name) ==
    IF name \cap BritishMarkers # {}
    THEN [country |-> "United Kingdom", region |-> "Europe", companyTerm |-> "company",
          financialTerm |-> <<"corporation", "financial", "information">>,
          language |-> "english", defaultLanguage |-> "en"]
    ELSE IF name \cap FrenchMarkers # {}
    THEN [country |-> "France", region |-> "Europe", companyTerm |-> "entreprise",
          financialTerm |-> <<"societe", "information", "financiere">>,
          language |-> "french", defaultLanguage |-> "fr"]
    ELSE IF name \cap AmericanMarkers # {}
    THEN [country |-> "United States", region |-> "North America", companyTerm |-> "company",
          financialTerm |-> <<"corporation", "financial", "information">>,
          language |-> "english", defaultLanguage |-> "en"]
    ELSE [country |-> "International", region |-> "Global", companyTerm |-> "company",
          financialTerm |-> <<"corporation", "financial", "information">>,
          language |-> "english", defaultLanguage |-> "en"]

\* detectCompanyGeography on the marker substrings of the lowercased name
geographyOf(name) ==
    IF name \cap FrenchMarkers # {}
    THEN [country |-> "France", region |-> "Europe", companyTerm |-> "entreprise",
          financialTerm |-> <<"societe", "information", "financiere">>,
          language |-> "french", defaultLanguage |-> "fr"]
    ELSE IF name \cap BritishMarkers # {}
    THEN [country |-> "United Kingdom", region |-> "Europe", companyTerm |-> "company",
          financialTerm |-> <<"corporation", "financial", "information">>,
          language |-> "english", defaultLanguage |-> "en"]
    ELSE IF name \cap AmericanMarkers # {}
    THEN [country |-> "United States", region |-> "North America", companyTerm |-> "company",
          financialTerm |-> <<"corporation", "financial", "information">>,
          language |-> "english", defaultLanguage |-> "en"]
    ELSE [country |-> "International", region |-> "Global", companyTerm |-> "company",
          financialTerm |-> <<"corporation", "financial", "information">>,
          language |-> "english", defaultLanguage |-> "en"]

detectCompanyGeography(companyName) == geographyOf(NameMarkers(companyName))

\* `"${companyName}"`
Quote(name) ==
    CASE name = "Acme SA" -> "\"Acme SA\""
      [] name = "Globex Ltd" -> "\"Globex Ltd\""
      [] name = "A" -> "\"A\""
      [] name = "demo corp" -> "\"demo corp\""
      [] OTHER -> "\"?\""

\* searchCompanyInfo: the three sub-queries, in order
searchQueries(companyName, geoContext) ==
    << [query |-> <<Quote(companyName), geoContext.companyTerm, geoContext.region>>,
        focusMode |-> "companyResearch"],
       [query |-> <<companyName>> \o geoContext.financialTerm \o <<"information">>,
        focusMode |-> "financialSearch"],
       [query |-> <<companyName, "company", "profile", "business", geoContext.language>>,
        focusMode |-> "companyResearch"] >>

\* { ...options, language: options.language || geoContext.defaultLanguage }
sciOptions(options, geoContext) ==
    [options EXCEPT !.language = IF options.language # "" THEN options.language
                                 ELSE geoContext.defaultLanguage]

----------------------------------------------------------------------------
(* The SearchService state machine.  A slot holds one invocation of        *)
(* searchWeb ("web"), getAccessToken ("token") or searchCompanyInfo        *)
(* ("sci"); pc is the await it is suspended at.  A slot whose invocation   *)
(* is done keeps its outcome until the next invocation takes the slot.     *)

ExpiresInValues == {1, 3}     \* expires_in of a token response, in minutes
Queries == {<<"Acme">>}
OptionSets == {[language |-> "fr", page |-> 1, engines |-> "", categories |-> ""]}
FocusArgs == {NoFocus, "competitorAnalysis"}
BodyShapes == {"json", "truncatedRepairable", "truncatedBroken", "notJson", "empty"}
ResultLists == {<<>>, <<"r1">>}
Bodies == [shape : BodyShapes, results : ResultLists]

IdleCall ==
    [pc |-> "idle", kind |-> "none", name |-> "", idx |-> 0, collected |-> <<>>,
     query |-> <<>>, options |-> [language |-> "", page |-> 0, engines |-> "", categories |-> ""],
     focusMode |-> NoFocus, optimizedQuery |-> <<>>, cacheKey |-> <<>>,
     msg |-> NoMsg, token |-> NoToken,
     result |-> NoResult, threw |-> FALSE,
     \* the 30 s abort timer of the search request (timeoutId, lines 154, 167, 236)
     timer |-> "none",
     \* history of this invocation
     tokenReqs |-> 0, backendReqs |-> 0, incSuccessful |-> 0, incCached |-> 0,
     errorsPushed |-> 0, webCalls |-> 0,
     lookupAt |-> NoTime, lookupEntry |-> NoTime, fromCache |-> FALSE, filler |-> NoResult,
     tokenCheckAt |-> NoTime, tokenCheckHad |-> NoToken, tokenCheckExpiry |-> NoTime,
     tokenCheckStoredAt |-> NoTime, tokenFromCache |-> FALSE,
     \* history of the slot: the searchWeb invocations it has seen throw, and be
     \* rejected for missing configuration
     thrown |-> 0, rejected |-> 0]

\* A new invocation of this kind in the slot that holds `old`
NewCall(kind, old) ==
    [IdleCall EXCEPT !.kind = kind, !.thrown = old.thrown, !.rejected = old.rejected]

\* The invocation's searchWeb (or getAccessToken) has returned or thrown:
\* a searchCompanyInfo invocation resumes its loop, the others are finished.
Finish(rec, result, threw) ==
    [rec EXCEPT !.pc = IF rec.kind = "sci" THEN "sciRet" ELSE "done",
                !.result = result, !.threw = threw, !.msg = NoMsg,
                !.thrown = IF threw /\ rec.kind # "token" THEN @ + 1 ELSE @]

errorEntry(error, rec) ==
    [timestamp |-> now, error |-> error, query |-> rec.query, focusMode |-> rec.focusMode]

\* searchWeb lines 101-115: the structured "not configured" result
notConfiguredResult(query) ==
    [success |-> FALSE, error |-> "Service de recherche web non configure",
     results |-> <<>>, query |-> query, configured |-> FALSE]

\* formatSearchResults, then lines 220-223
formatSearchResults(rawData, rec) ==
    [query |-> rec.query, totalResults |-> Len(rawData.results), success |-> TRUE,
     results |-> rawData.results, timestamp |-> now,
     focusMode |-> rec.focusMode, focusDescription |-> focusDescription(rec.focusMode),
     optimizedQuery |-> rec.optimizedQuery, originalQuery |-> rec.query]

\* lines 129-133: { ...cached.data, focusMode, focusDescription }
cachedResult(data, focusMode) ==
    [data EXCEPT !.focusMode = focusMode, !.focusDescription = focusDescription(focusMode)]

\* lines 181-217: JSON.parse of the trimmed body, with the truncated-JSON repair
ParseBody(body) ==
    CASE body.shape = "json" -> [ok |-> TRUE, results |-> body.results]
      [] body.shape = "truncatedRepairable" -> [ok |-> TRUE, results |-> body.results]
      [] OTHER -> [ok |-> FALSE, results |-> <<>>]

\* getAccessToken up to its first await, entered from `rec`: the cached token is
\* returned, or the token request is sent.  With the cached token searchWeb goes
\* on to send its search request.
EnterGetAccessToken(rec) ==
    LET chk == [rec EXCEPT !.tokenCheckAt = now, !.tokenCheckHad = accessToken,
                           !.tokenCheckExpiry = tokenExpiry,
                           !.tokenCheckStoredAt = lastStore.at]
    IN IF TokenValid(accessToken, tokenExpiry, now)
       THEN IF rec.kind = "token"
            THEN Finish([chk EXCEPT !.tokenFromCache = TRUE, !.token = accessToken],
                        [shape |-> "token", token |-> accessToken], FALSE)
            ELSE [chk EXCEPT !.tokenFromCache = TRUE, !.token = accessToken,
                             !.pc = "searchWait", !.backendReqs = @ + 1,
                             !.timer = "armed"]
       ELSE [chk EXCEPT !.pc = "tokenWait", !.tokenReqs = @ + 1]

\* line 128: the cache hit is counted
countCacheHitAsSuccessToo(s) ==
    [s EXCEPT !.cachedRequests = @ + 1, !.successfulRequests = @ + 1]
countCacheHit(s) == [s EXCEPT !.cachedRequests = @ + 1]

\* searchWeb from its entry to its first await (or its return), entered from `rec`
EnterSearchWeb(c, rec, query, options, focusArg) ==
    LET focusMode == IF focusArg = NoFocus THEN detectOptimalFocus(query) ELSE focusArg
        optimizedParams == applySearchFocus(searchParams(query, options), focusMode)
        cacheKey == CacheKey(optimizedParams, focusMode)
        has == cacheKey \in DOMAIN cache
        r0 == [rec EXCEPT !.query = query, !.options = options, !.focusMode = focusMode,
                          !.optimizedQuery = optimizedParams.query, !.cacheKey = cacheKey,
                          !.webCalls = @ + 1,
                          !.tokenReqs = 0, !.backendReqs = 0, !.incSuccessful = 0,
                          !.incCached = 0, !.errorsPushed = 0, !.fromCache = FALSE,
                          !.filler = NoResult, !.lookupAt = NoTime, !.lookupEntry = NoTime,
                          !.tokenCheckAt = NoTime, !.tokenFromCache = FALSE,
                          !.result = NoResult, !.threw = FALSE, !.timer = "none"]
    IN IF configurationError
       THEN /\ stats' = [stats EXCEPT !.totalRequests = @ + 1,
                            !.errors = Append(@, [timestamp |-> now,
                                                  error |-> "Configuration Azure AD incorrecte",
                                                  query |-> query, focusMode |-> NoFocus])]
            /\ calls' = [calls EXCEPT ![c] =
                            Finish([r0 EXCEPT !.errorsPushed = 1, !.rejected = @ + 1],
                                   notConfiguredResult(query), FALSE)]
       ELSE LET r1 == [r0 EXCEPT !.lookupAt = now,
                                 !.lookupEntry = IF has THEN cache[cacheKey].timestamp
                                                 ELSE NoTime]
            IN IF has /\ IsFresh(cache[cacheKey], now)
               THEN /\ stats' = countCacheHit([stats EXCEPT !.totalRequests = @ + 1])
                    /\ calls' = [calls EXCEPT ![c] =
                                    Finish([r1 EXCEPT !.incCached = 1, !.fromCache = TRUE,
                                                      !.filler = filled[cacheKey].returned],
                                           cachedResult(cache[cacheKey].data, focusMode),
                                           FALSE)]
               ELSE /\ stats' = [stats EXCEPT !.totalRequests = @ + 1]
                    /\ calls' = [calls EXCEPT ![c] = EnterGetAccessToken(r1)]

InitService ==
    /\ now = 0
    /\ settings \in SUBSET RequiredSettings
    /\ configurationError = HasConfigurationError(settings)
    /\ accessToken = NoToken
    /\ tokenExpiry = NoTime
    /\ cache = [k \in {} |-> 0]
    /\ stats = [totalRequests |-> 0, successfulRequests |-> 0, cachedRequests |-> 0,
                errors |-> <<>>]
    /\ calls = [c \in Calls |-> IdleCall]
    /\ started = 0
    /\ nextId = 1
    /\ failures = 0
    /\ lastStore = [token |-> NoToken, at |-> NoTime]
    /\ filled = [k \in {} |-> 0]

NoScoring == [phase |-> "none"]
\* a profile with nothing extracted; no request being handled
NoProfile == [name |-> "", sector |-> "", country |-> "", size_category |-> "", confidence |-> 0]
NoRequest ==
    [pc |-> "none", op |-> "", companyName |-> "", maxResults |-> 0, minSimilarity |-> 0,
     preferSameCountry |-> TRUE, idx |-> 0, collected |-> <<>>, lookupError |-> "",
     reference |-> NoProfile, queries |-> <<>>, outcomes |-> <<>>, allComparables |-> <<>>,
     status |-> 0, message |-> "", timestamp |-> FALSE, errorMessage |-> "",
     comparables |-> <<>>, profile |-> NoProfile, totalResults |-> 0, relevantResults |-> 0]
NoEvaluation == [phase |-> "none"]
InitApp == scoring = NoScoring /\ handler = NoRequest /\ evaluation = NoEvaluation

Init == InitService /\ horizon = MaxTime /\ InitApp
InitSequential == InitService /\ horizon = MaxSequentialTime /\ InitApp
InitCompany == InitService /\ horizon = 0 /\ InitApp

\* Time passes: between invocations, and while a token response travels back
\* from the endpoint (the other requests are answered within the minute).
Tick ==
    /\ now < horizon
    /\ \A c \in Calls : calls[c].pc \in {"idle", "done", "tokenBody"}
    /\ now' = now + 1
    /\ UNCHANGED <<settings, configurationError, accessToken, tokenExpiry, cache, stats,
                   calls, started, nextId, horizon, failures, lastStore, filled>>

\* A caller invokes searchWeb(query, options, focusMode).
CallSearchWeb(c) ==
    /\ calls[c].pc \in {"idle", "done"}
    /\ started < MaxStarted
    /\ \E query \in Queries, options \in OptionSets, focusArg \in FocusArgs :
          EnterSearchWeb(c, NewCall("web", calls[c]), query, options, focusArg)
    /\ started' = started + 1
    /\ UNCHANGED <<now, settings, configurationError, accessToken, tokenExpiry, cache,
                   nextId, horizon, failures, lastStore, filled>>

\* A caller invokes getAccessToken() directly (as testConnection does).
CallGetAccessToken(c) ==
    /\ calls[c].pc \in {"idle", "done"}
    /\ started < MaxStarted
    /\ calls' = [calls EXCEPT ![c] = EnterGetAccessToken(NewCall("token", calls[c]))]
    /\ started' = started + 1
    /\ UNCHANGED <<now, settings, configurationError, accessToken, tokenExpiry, cache,
                   stats, nextId, horizon, failures, lastStore, filled>>

\* A caller invokes searchCompanyInfo(companyName, options).
CallSearchCompanyInfo(c) ==
    /\ calls[c].pc \in {"idle", "done"}
    /\ started < MaxStarted
    /\ started' = started + 1
    /\ \E companyName \in CompanyNames, options \in OptionSets :
          LET rec == [NewCall("sci", calls[c]) EXCEPT !.name = companyName,
                                      !.options = options, !.idx = 1]
          IN IF configurationError
             THEN /\ calls' = [calls EXCEPT ![c] =
                        [rec EXCEPT !.pc = "done", !.idx = 0,
                                    !.result = notConfiguredResult(<<companyName>>)]]
                  /\ UNCHANGED stats
             ELSE LET geoContext == detectCompanyGeography(companyName)
                      sq == searchQueries(companyName, geoContext)[1]
                  IN EnterSearchWeb(c, rec, sq.query, sciOptions(options, geoContext),
                                    sq.focusMode)
    /\ UNCHANGED <<now, settings, configurationError, accessToken, tokenExpiry, cache,
                   nextId, horizon, failures, lastStore, filled>>

TokenFailureRetrying(c) ==
    /\ calls' = [calls EXCEPT ![c] = [@ EXCEPT !.pc = "tokenWait", !.msg = NoMsg,
                                               !.tokenReqs = @ + 1]]
    /\ UNCHANGED stats

\* getAccessToken fails (fetch rejected, or the endpoint answered non-2xx): it
\* throws; inside searchWeb the outer catch (lines 257-265) logs the error once
\* and rethrows.
TokenFailure(c) ==
    IF calls[c].kind = "token"
    THEN /\ calls' = [calls EXCEPT ![c] = Finish(@, [shape |-> "error",
                                                     error |-> "Erreur obtention token Azure AD"], TRUE)]
         /\ UNCHANGED stats
    ELSE /\ stats' = [stats EXCEPT !.errors =
                         Append(@, errorEntry("Erreur obtention token Azure AD", calls[c]))]
         /\ calls' = [calls EXCEPT ![c] =
                         Finish([@ EXCEPT !.errorsPushed = @ + 1],
                                [shape |-> "error", error |-> "Erreur obtention token Azure AD"],
                                TRUE)]

\* The token endpoint answers the request of slot c (line 75 resumes), or the
\* request fails in transport.
TokenResponse(c) ==
    /\ calls[c].pc = "tokenWait"
    /\ \/ \E expiresIn \in ExpiresInValues :
             /\ calls' = [calls EXCEPT ![c] =
                   [@ EXCEPT !.pc = "tokenBody",
                             !.msg = [kind |-> "ok",
                                      data |-> [id |-> nextId, issuedAt |-> now,
                                                expiresIn |-> expiresIn]]]]
             /\ nextId' = nextId + 1
             /\ UNCHANGED <<stats, failures>>
       \/ /\ failures < MaxFailures
          /\ failures' = failures + 1
          /\ calls' = [calls EXCEPT ![c] = [@ EXCEPT !.pc = "tokenBody",
                                                     !.msg = [kind |-> "rejected"]]]
          /\ UNCHANGED <<nextId, stats>>
       \/ /\ failures < MaxFailures
          /\ failures' = failures + 1
          /\ TokenFailure(c)
          /\ UNCHANGED nextId
    /\ UNCHANGED <<now, settings, configurationError, accessToken, tokenExpiry, cache,
                   started, horizon, lastStore, filled>>

\* The body of the token response has been read (lines 84-92): the token and its
\* expiry are stored together; searchWeb then sends its search request.
TokenProcess(c) ==
    /\ calls[c].pc = "tokenBody"
    /\ IF calls[c].msg.kind = "ok"
       THEN LET data == calls[c].msg.data
            IN /\ accessToken' = data
               /\ tokenExpiry' = ExpiryOf(data, now)
               /\ lastStore' = [token |-> data, at |-> now]
               /\ calls' = [calls EXCEPT ![c] =
                     IF @.kind = "token"
                     THEN Finish([@ EXCEPT !.token = data],
                                 [shape |-> "token", token |-> data], FALSE)
                     ELSE [@ EXCEPT !.token = data, !.msg = NoMsg, !.pc = "searchWait",
                                    !.backendReqs = @ + 1, !.timer = "armed"]]
               /\ UNCHANGED stats
       ELSE /\ TokenFailure(c)
            /\ UNCHANGED <<accessToken, tokenExpiry, lastStore>>
    /\ UNCHANGED <<now, settings, configurationError, cache, started, nextId, horizon,
                   failures, filled>>

\* The message of the error thrown when the timer aborts the request (line 239)
TimeoutError == "Timeout de 30 secondes depasse pour la recherche SearXNG"

SearchFailureOverwriting(c, error) ==
    /\ stats' = [stats EXCEPT !.errors = <<errorEntry(error, calls[c]),
                                           errorEntry(error, calls[c])>>]
    /\ calls' = [calls EXCEPT ![c] =
                    Finish([@ EXCEPT !.errorsPushed = @ + 2],
                           [shape |-> "error", error |-> error], TRUE)]

\* The search request fails: the inner catch (lines 235-256) logs the error and
\* rethrows, and the outer catch (lines 257-265) logs it again and rethrows.
SearchFailure(c, error) ==
    /\ stats' = [stats EXCEPT !.errors =
                    Append(Append(@, errorEntry(error, calls[c])), errorEntry(error, calls[c]))]
    /\ calls' = [calls EXCEPT ![c] =
                    Finish([@ EXCEPT !.errorsPushed = @ + 2,
                                     !.timer = IF error = TimeoutError THEN "fired"
                                                                       ELSE "cleared"],
                           [shape |-> "error", error |-> error], TRUE)]

\* The backend answers the search request of slot c with a status line (line
\* 157 resumes, line 167 clears the timer), the request fails in transport, or
\* the 30 s timer aborts it.
SearchResponse(c) ==
    /\ calls[c].pc = "searchWait"
    /\ \/ /\ calls' = [calls EXCEPT ![c] = [@ EXCEPT !.pc = "bodyWait",
                                                     !.msg = [kind |-> "ok"],
                                                     !.timer = "cleared"]]
          /\ UNCHANGED <<stats, failures>>
       \/ /\ failures < MaxFailures
          /\ failures' = failures + 1
          /\ \/ /\ calls' = [calls EXCEPT ![c] = [@ EXCEPT !.pc = "bodyWait",
                                                           !.msg = [kind |-> "non2xx"],
                                                           !.timer = "cleared"]]
                /\ UNCHANGED stats
             \/ SearchFailure(c, "fetch failed")
             \/ SearchFailure(c, TimeoutError)
    /\ UNCHANGED <<now, settings, configurationError, accessToken, tokenExpiry, cache,
                   started, nextId, horizon, lastStore, filled>>

\* BodyProcess storing what it has read in the cache before it parses it
BodyProcessCachingFirst(c) ==
    /\ calls[c].pc = "bodyWait"
    /\ IF calls[c].msg.kind = "non2xx"
       THEN /\ SearchFailure(c, "Erreur de recherche SearXNG")
            /\ UNCHANGED <<cache, filled, failures>>
       ELSE \E body \in Bodies :
               LET data == ParseBody(body)
                   formattedResults == formatSearchResults(data, calls[c])
                   cacheKey == calls[c].cacheKey
                   keys == DOMAIN cache \cup {cacheKey}
               IN /\ cache' = [k \in keys |->
                                  IF k = cacheKey
                                  THEN [data |-> formattedResults, timestamp |-> now]
                                  ELSE cache[k]]
                  /\ filled' = [k \in keys |->
                                  IF k = cacheKey
                                  THEN [body |-> body, at |-> now,
                                        returned |-> formattedResults]
                                  ELSE filled[k]]
                  /\ IF data.ok
                     THEN /\ stats' = [stats EXCEPT !.successfulRequests = @ + 1]
                          /\ calls' = [calls EXCEPT ![c] =
                                          Finish([@ EXCEPT !.incSuccessful = @ + 1],
                                                 formattedResults, FALSE)]
                          /\ UNCHANGED failures
                     ELSE /\ failures < MaxFailures
                          /\ failures' = failures + 1
                          /\ SearchFailure(c, "Reponse non JSON recue du serveur SearXNG")
    /\ UNCHANGED <<now, settings, configurationError, accessToken, tokenExpiry,
                   started, nextId, horizon, lastStore>>

\* The body has been read (line 172 or 177 resumes): parse, format, store in the
\* cache, count the success and return; or throw.
BodyProcess(c) ==
    /\ calls[c].pc = "bodyWait"
    /\ IF calls[c].msg.kind = "non2xx"
       THEN /\ SearchFailure(c, "Erreur de recherche SearXNG")
            /\ UNCHANGED <<cache, filled, failures>>
       ELSE \E body \in Bodies :
               LET data == ParseBody(body)
                   formattedResults == formatSearchResults(data, calls[c])
                   cacheKey == calls[c].cacheKey
                   keys == DOMAIN cache \cup {cacheKey}
               IN IF data.ok
                  THEN /\ cache' = [k \in keys |->
                                       IF k = cacheKey
                                       THEN [data |-> formattedResults, timestamp |-> now]
                                       ELSE cache[k]]
                       /\ filled' = [k \in keys |->
                                       IF k = cacheKey
                                       THEN [body |-> body, at |-> now,
                                             returned |-> formattedResults]
                                       ELSE filled[k]]
                       /\ stats' = [stats EXCEPT !.successfulRequests = @ + 1]
                       /\ calls' = [calls EXCEPT ![c] =
                                       Finish([@ EXCEPT !.incSuccessful = @ + 1],
                                              formattedResults, FALSE)]
                       /\ UNCHANGED failures
                  ELSE /\ failures < MaxFailures
                       /\ failures' = failures + 1
                       /\ SearchFailure(c, "Reponse non JSON recue du serveur SearXNG")
                       /\ UNCHANGED <<cache, filled>>
    /\ UNCHANGED <<now, settings, configurationError, accessToken, tokenExpiry,
                   started, nextId, horizon, lastStore>>

\* searchCompanyInfo going on to the next sub-query after one has thrown
SearchCompanyInfoResumeSkipping(c) ==
    /\ calls[c].pc = "sciRet"
    /\ LET rec == calls[c]
           geoContext == detectCompanyGeography(rec.name)
           sqs == searchQueries(rec.name, geoContext)
           collected == IF "results" \in DOMAIN rec.result
                        THEN Append(rec.collected,
                                    [query |-> rec.query, focusMode |-> rec.focusMode,
                                     results |-> rec.result.results])
                        ELSE rec.collected
       IN IF rec.idx < Len(sqs)
          THEN EnterSearchWeb(c, [rec EXCEPT !.idx = @ + 1, !.collected = collected],
                              sqs[rec.idx + 1].query, sciOptions(rec.options, geoContext),
                              sqs[rec.idx + 1].focusMode)
          ELSE /\ calls' = [calls EXCEPT ![c] =
                     [@ EXCEPT !.pc = "done", !.collected = collected, !.threw = FALSE,
                               !.result = [success |-> Len(collected) > 0,
                                           searchResults |-> collected,
                                           totalQueries |-> Len(sqs),
                                           successfulQueries |-> Len(collected),
                                           companyName |-> rec.name,
                                           detectedGeography |-> geoContext]]]
               /\ UNCHANGED stats
    /\ UNCHANGED <<now, settings, configurationError, accessToken, tokenExpiry, cache,
                   started, nextId, horizon, failures, lastStore, filled>>

\* searchCompanyInfo resumes after `await this.searchWeb(...)` (lines 299-335).
SearchCompanyInfoResume(c) ==
    /\ calls[c].pc = "sciRet"
    /\ LET rec == calls[c]
           geoContext == detectCompanyGeography(rec.name)
           sqs == searchQueries(rec.name, geoContext)
           collected == IF "results" \in DOMAIN rec.result
                        THEN Append(rec.collected,
                                    [query |-> rec.query, focusMode |-> rec.focusMode,
                                     results |-> rec.result.results])
                        ELSE rec.collected
       IN IF rec.threw
          THEN /\ calls' = [calls EXCEPT ![c] =
                     [@ EXCEPT !.pc = "done", !.threw = FALSE,
                               !.result = [success |-> FALSE,
                                           error |-> "Erreur recherche entreprise",
                                           results |-> <<>>, query |-> <<rec.name>>]]]
               /\ UNCHANGED stats
          ELSE IF rec.idx < Len(sqs)
          THEN EnterSearchWeb(c, [rec EXCEPT !.idx = @ + 1, !.collected = collected],
                              sqs[rec.idx + 1].query, sciOptions(rec.options, geoContext),
                              sqs[rec.idx + 1].focusMode)
          ELSE /\ calls' = [calls EXCEPT ![c] =
                     [@ EXCEPT !.pc = "done", !.collected = collected,
                               !.result = [success |-> Len(collected) > 0,
                                           searchResults |-> collected,
                                           totalQueries |-> Len(sqs),
                                           successfulQueries |-> Len(collected),
                                           companyName |-> rec.name,
                                           detectedGeography |-> geoContext]]]
               /\ UNCHANGED stats
    /\ UNCHANGED <<now, settings, configurationError, accessToken, tokenExpiry, cache,
                   started, nextId, horizon, failures, lastStore, filled>>

\* Concurrent searchWeb and getAccessToken invocations on one instance.
Next ==
    \/ Tick /\ UNCHANGED appVars
    \/ \E c \in Calls : CallSearchWeb(c) /\ UNCHANGED appVars
    \/ \E c \in Calls : CallGetAccessToken(c) /\ UNCHANGED appVars
    \/ \E c \in Calls : TokenResponse(c) /\ UNCHANGED appVars
    \/ \E c \in Calls : TokenProcess(c) /\ UNCHANGED appVars
    \/ \E c \in Calls : SearchResponse(c) /\ UNCHANGED appVars
    \/ \E c \in Calls : BodyProcess(c) /\ UNCHANGED appVars

Spec == Init /\ [][Next]_vars

\* searchWeb and getAccessToken invocations, one at a time.
NextSequential ==
    \/ Tick /\ UNCHANGED appVars
    \/ CallSearchWeb(1) /\ UNCHANGED appVars
    \/ CallGetAccessToken(1) /\ UNCHANGED appVars
    \/ TokenResponse(1) /\ UNCHANGED appVars
    \/ TokenProcess(1) /\ UNCHANGED appVars
    \/ SearchResponse(1) /\ UNCHANGED appVars
    \/ BodyProcess(1) /\ UNCHANGED appVars

SpecSequential == InitSequential /\ [][NextSequential]_vars

\* searchCompanyInfo and searchWeb invocations, one at a time, within one minute.
NextCompany ==
    \/ CallSearchCompanyInfo(1) /\ UNCHANGED appVars
    \/ CallSearchWeb(1) /\ UNCHANGED appVars
    \/ TokenResponse(1) /\ UNCHANGED appVars
    \/ TokenProcess(1) /\ UNCHANGED appVars
    \/ SearchResponse(1) /\ UNCHANGED appVars
    \/ BodyProcess(1) /\ UNCHANGED appVars
    \/ SearchCompanyInfoResume(1) /\ UNCHANGED appVars

SpecCompany == InitCompany /\ [][NextCompany]_vars

----------------------------------------------------------------------------
(* Properties of the SearchService *)

\* slot c holds a finished searchWeb invocation of a configured service
WebDone(c) ==
    /\ calls[c].kind = "web"
    /\ calls[c].pc = "done"
    /\ ~configurationError

\* what the lookup of slot c found: an entry less than 5 minutes old
FoundFreshEntry(c) ==
    /\ calls[c].lookupEntry # NoTime
    /\ calls[c].lookupAt - calls[c].lookupEntry < CacheTimeout

CacheHitContract(c) ==
    /\ calls[c].fromCache <=> FoundFreshEntry(c)
    /\ calls[c].fromCache =>
          /\ calls[c].tokenReqs = 0
          /\ calls[c].backendReqs = 0
          /\ ~calls[c].threw
          /\ calls[c].result = calls[c].filler
          /\ calls[c].incCached = 1
          /\ calls[c].incSuccessful = 0

\* C1 as stated: searchWeb answers from the cache iff a fresh entry with the
\* same key exists; a hit issues no request, returns the filling call's payload
\* and counts as cached; every miss issues a backend request and counts one
\* success when the request succeeds.
C1_AsStated ==
    \A c \in Calls : WebDone(c) =>
        /\ CacheHitContract(c)
        /\ ~calls[c].fromCache =>
              /\ calls[c].backendReqs = 1
              /\ calls[c].incCached = 0
              /\ calls[c].incSuccessful = IF calls[c].threw THEN 0 ELSE 1

\* C1 with the miss made precise: as C1, but a miss issues its one backend request only once it
\* holds a token: when the token exchange fails there is no backend request.
C1_CacheHitIffFresh ==
    \A c \in Calls : WebDone(c) =>
        /\ CacheHitContract(c)
        /\ ~calls[c].fromCache =>
              /\ calls[c].backendReqs = IF calls[c].token.id # 0 THEN 1 ELSE 0
              /\ calls[c].token.id = 0 => calls[c].threw
              /\ calls[c].incCached = 0
              /\ calls[c].incSuccessful = IF calls[c].threw THEN 0 ELSE 1

\* a second call was answered from the cache, with a non-empty payload
C1_Witness ==
    \E c \in Calls :
        /\ WebDone(c)
        /\ calls[c].fromCache
        /\ calls[c].result.results # <<>>
        /\ calls[c].lookupAt > calls[c].lookupEntry

\* getAccessToken has been entered in slot c
TokenChecked(c) == calls[c].tokenCheckAt # NoTime

\* the token cache as getAccessToken found it was valid
FoundValidToken(c) ==
    /\ calls[c].tokenCheckHad.id # 0
    /\ calls[c].tokenCheckExpiry # NoTime
    /\ calls[c].tokenCheckAt < calls[c].tokenCheckExpiry

TokenRequestCount(c) ==
    /\ calls[c].tokenFromCache <=> FoundValidToken(c)
    /\ calls[c].tokenReqs = IF FoundValidToken(c) THEN 0 ELSE 1

\* the cached token is the one last stored, with the expiry of its own response
TokenCacheConsistent ==
    accessToken.id # 0 =>
        /\ accessToken = lastStore.token
        /\ tokenExpiry = lastStore.at + accessToken.expiresIn - TokenMargin

\* C2 as stated: zero token requests with a valid cached token, exactly one
\* otherwise; expiresAt = processing time + expires_in - 60 s; so a cached token
\* is never handed out during the last 60 seconds of its real lifetime (which
\* runs from the moment the endpoint issued it).
C2_AsStated ==
    /\ TokenCacheConsistent
    /\ \A c \in Calls : TokenChecked(c) =>
          /\ TokenRequestCount(c)
          /\ calls[c].tokenFromCache =>
                calls[c].tokenCheckAt <
                    calls[c].tokenCheckHad.issuedAt + calls[c].tokenCheckHad.expiresIn
                        - TokenMargin

\* C2 with the margin made precise: the request counts and the expiry as stated; a cached token is
\* handed out only before (processing time + expires_in - 60 s), which is later
\* than 60 seconds before its real end by the latency of the token response.
C2_TokenCaching ==
    /\ TokenCacheConsistent
    /\ \A c \in Calls : TokenChecked(c) =>
          /\ TokenRequestCount(c)
          /\ calls[c].tokenFromCache =>
                /\ calls[c].tokenCheckAt <
                      calls[c].tokenCheckStoredAt + calls[c].tokenCheckHad.expiresIn
                          - TokenMargin
                /\ calls[c].tokenCheckStoredAt >= calls[c].tokenCheckHad.issuedAt

\* a token was handed out from the cache some time after it was stored
C2_Witness ==
    \E c \in Calls :
        /\ TokenChecked(c)
        /\ calls[c].tokenFromCache
        /\ calls[c].tokenCheckAt > calls[c].tokenCheckStoredAt

\* every cache entry is the formatted response of the one backend call that
\* filled it, with that call's timestamp
CacheEntriesWhole ==
    \A k \in DOMAIN cache :
        /\ cache[k].timestamp = filled[k].at
        /\ cache[k].data = filled[k].returned
        /\ cache[k].data.timestamp = filled[k].at
        /\ cache[k].data.success
        /\ cache[k].data.results = ParseBody(filled[k].body).results
        /\ cache[k].data.totalResults = Len(filled[k].body.results)
        /\ cache[k].data.optimizedQuery = k[1]
        /\ cache[k].data.focusMode = k[3]
        /\ cache[k].data.focusDescription = focusDescription(k[3])

\* a caller that got a value got a whole one
ResultsWhole ==
    \A c \in Calls : (calls[c].pc = "done" /\ ~calls[c].threw) =>
        IF calls[c].kind = "token"
        THEN /\ calls[c].result.token.id # 0
             /\ calls[c].result.token.id < nextId
        ELSE /\ DOMAIN calls[c].result =
                   {"query", "totalResults", "success", "results", "timestamp", "focusMode",
                    "focusDescription", "optimizedQuery", "originalQuery"}
             /\ calls[c].result.originalQuery = calls[c].query
             /\ calls[c].result.focusMode = calls[c].focusMode
             /\ calls[c].result.totalResults = Len(calls[c].result.results)

\* C3: under every interleaving of concurrent searchWeb and getAccessToken
\* calls the token cache holds a token with the expiry of that token's own
\* response, every cache entry is the whole response of one backend call with
\* its timestamp, and every caller that gets a value gets a whole result.
C3_SharedStateConsistent ==
    ~configurationError =>
        /\ TokenCacheConsistent
        /\ CacheEntriesWhole
        /\ ResultsWhole

\* two concurrent calls missed the same key, both fetched and both stored,
\* and two token exchanges were made
C3_Witness ==
    /\ calls[1].pc = "done" /\ calls[2].pc = "done"
    /\ calls[1].kind = "web" /\ calls[2].kind = "web"
    /\ calls[1].cacheKey = calls[2].cacheKey
    /\ calls[1].incSuccessful = 1 /\ calls[2].incSuccessful = 1
    /\ calls[1].tokenReqs = 1 /\ calls[2].tokenReqs = 1
    /\ calls[1].result # calls[2].result

\* C6: when a required setting is absent at construction, every searchWeb and
\* searchCompanyInfo call returns the structured not-configured result, never
\* throws, and no token or backend request is ever issued.
C6_NotConfigured ==
    (RequiredSettings \ settings # {}) =>
        /\ nextId = 1
        /\ \A c \in Calls :
              /\ calls[c].pc \in {"idle", "done"}
              /\ calls[c].pc = "done" =>
                    /\ ~calls[c].threw
                    /\ calls[c].tokenReqs = 0
                    /\ calls[c].backendReqs = 0
                    /\ calls[c].result.success = FALSE
                    /\ calls[c].result.configured = FALSE
                    /\ calls[c].result.results = <<>>

\* an unconfigured service has answered a searchWeb and then a searchCompanyInfo
C6_Witness ==
    /\ RequiredSettings \ settings # {}
    /\ calls[1].pc = "done"
    /\ calls[1].kind = "sci"
    /\ stats.totalRequests = 1

----------------------------------------------------------------------------
(* calculateSimilarityScore (findComparables).  A profile field that is    *)
(* absent is "" (falsy).  Confidence is counted in hundredths and scores   *)
(* in hundredths of a point, so that 45.5 points is 4550.                  *)

areSimilarSectors(sector1, sector2) ==
    LET similarGroups == << {"Technology", "Consulting", "IT Services"},
                            {"Finance", "Banking", "Insurance"},
                            {"Healthcare", "Pharmaceutical", "Biotechnology"} >>
    IN \E g \in 1..Len(similarGroups) :
          sector1 \in similarGroups[g] /\ sector2 \in similarGroups[g]

areSimilarRegions(country1, country2) ==
    LET regions == << {"France", "Germany", "United Kingdom", "Spain", "Italy"},
                      {"United States", "Canada"},
                      {"China", "Japan", "India", "Singapore"} >>
    IN \E r \in 1..Len(regions) : country1 \in regions[r] /\ country2 \in regions[r]

sizeOrder == <<"micro", "small", "medium", "large", "enterprise">>

\* Array.prototype.indexOf, 0-based, -1 when absent
indexOf(seq, x) ==
    IF \E i \in 1..Len(seq) : seq[i] = x
    THEN (CHOOSE i \in 1..Len(seq) : seq[i] = x /\ \A j \in 1..(i - 1) : seq[j] # x) - 1
    ELSE -1

Abs(n) == IF n < 0 THEN -n ELSE n

areSimilarSizes(size1, size2) ==
    LET index1 == indexOf(sizeOrder, size1)
        index2 == indexOf(sizeOrder, size2)
    IN index1 # -1 /\ index2 # -1 /\ Abs(index1 - index2) <= 1

\* Math.round, Math.max, Math.min on hundredths of a point
MathRound(x) == ((x + 50) \div 100) * 100
MathMax(a, b) == IF a >= b THEN a ELSE b
MathMin(a, b) == IF a <= b THEN a ELSE b

\* lines 335-342, 345-352, 355-362: the points and the presence of each factor
sectorPresent(reference, comparable) == reference.sector # "" /\ comparable.sector # ""
sectorPoints(reference, comparable) ==
    IF ~sectorPresent(reference, comparable) THEN 0
    ELSE IF toLowerCase(reference.sector) = toLowerCase(comparable.sector) THEN 40
    ELSE IF areSimilarSectors(reference.sector, comparable.sector) THEN 25
    ELSE 0

countryPresent(reference, comparable) == reference.country # "" /\ comparable.country # ""
countryPoints(reference, comparable) ==
    IF ~countryPresent(reference, comparable) THEN 0
    ELSE IF reference.country = comparable.country THEN 30
    ELSE IF areSimilarRegions(reference.country, comparable.country) THEN 15
    ELSE 0

sizePresent(reference, comparable) ==
    reference.size_category # "" /\ comparable.size_category # ""
sizePoints(reference, comparable) ==
    IF ~sizePresent(reference, comparable) THEN 0
    ELSE IF reference.size_category = comparable.size_category THEN 20
    ELSE IF areSimilarSizes(reference.size_category, comparable.size_category) THEN 10
    ELSE 0

\* the `factors` counter
factors(reference, comparable) ==
    (IF sectorPresent(reference, comparable) THEN 1 ELSE 0)
    + (IF countryPresent(reference, comparable) THEN 1 ELSE 0)
    + (IF sizePresent(reference, comparable) THEN 1 ELSE 0)

\* line 365: score += (comparable.confidence || 0.5) * 10
confidencePoints(comparable) ==
    (IF comparable.confidence # 0 THEN comparable.confidence ELSE 50) * 10

\* `score` when line 368 is reached, in hundredths
rawScore(reference, comparable) ==
    100 * (sectorPoints(reference, comparable) + countryPoints(reference, comparable)
           + sizePoints(reference, comparable))
    + confidencePoints(comparable)

\* line 368: if (factors < 2)
tooFewFactorsOrTwo(n) == n <= 2
tooFewFactors(n) == n < 2

calculateSimilarityScore(reference, comparable) ==
    IF tooFewFactors(factors(reference, comparable))
    THEN MathMax(rawScore(reference, comparable), 4000)
    ELSE MathMin(MathRound(rawScore(reference, comparable)), 10000)

Sectors == {"", "Technology", "TECHNOLOGY", "Consulting", "Finance", "Retail"}
Countries == {"", "France", "Germany", "United States", "Japan"}
SizeCategories == {"", "micro", "small", "medium", "enterprise", "unknown"}
Confidences == {0, 5, 50, 55, 60, 100}

References == [sector : Sectors, country : Countries, size_category : SizeCategories]
Comparables == [sector : Sectors, country : Countries, size_category : SizeCategories,
                confidence : Confidences]

svcIdle ==
    /\ InitService
    /\ settings = RequiredSettings
    /\ horizon = 0

InitScore ==
    /\ svcIdle
    /\ handler = NoRequest
    /\ evaluation = NoEvaluation
    /\ \E reference \in References, comparable \in Comparables :
          scoring = [phase |-> "called", reference |-> reference, comparable |-> comparable,
                     score |-> 0]

ComputeSimilarityScore ==
    /\ scoring.phase = "called"
    /\ scoring' = [scoring EXCEPT
                      !.phase = "returned",
                      !.score = calculateSimilarityScore(scoring.reference, scoring.comparable)]
    /\ UNCHANGED <<svcVars, handler, evaluation>>

NextScore == ComputeSimilarityScore

SpecScore == InitScore /\ [][NextScore]_vars

----------------------------------------------------------------------------
(* Text handled by the endpoint handlers.  A search result item is named   *)
(* by a string; itemText gives the words of `${title} ${content}` in lower *)
(* case and mentions gives the company names the extraction patterns match *)
(* in it, in order.                                                        *)

BulkSize == 51       \* names mentioned by the largest result item
ResultCap == 50      \* Math.min(maxResults, 50)

Letters == <<"a", "b", "c", "d", "e", "f", "g", "h">>
BulkNames ==
    [i \in 1..BulkSize |->
        "firm" \o Letters[((i - 1) \div 8) + 1] \o Letters[((i - 1) % 8) + 1]]

itemText(item) ==
    CASE item = "p1" -> {"acme sa", "software", "paris", "startup"}
      [] item = "i1" -> {"globex", "software", "france"}
      [] item = "i2" -> {"hooli", "globex", "bank", "germany"}
      [] item = "i3" -> {"umbrella", "acme sa", "the firm", "ab", "sitecore", "retail"}
      [] item = "bulk" -> {"entreprise", "software"}
      [] OTHER -> {}

mentions(item) ==
    CASE item = "i1" -> <<"Globex">>
      [] item = "i2" -> <<"Hooli", "GLOBEX">>
      [] item = "i3" -> <<"Umbrella", "ACME SA", "The Firm", "Ab", "Sitecore">>
      [] item = "bulk" -> BulkNames
      [] OTHER -> <<>>

\* String.prototype.length of the names the model uses
length(name) ==
    CASE name = "" -> 0
      [] name = "A" -> 1
      [] name = "Ab" -> 2
      [] name = "Hooli" -> 5
      [] name \in {"Globex", "GLOBEX"} -> 6
      [] name \in {"Acme SA", "ACME SA"} -> 7
      [] name \in {"Umbrella", "The Firm", "Sitecore"} -> 8
      [] name = "demo corp" -> 9
      [] OTHER -> 6

\* content.includes(keyword): the keyword is a word of the content or a
\* substring of one
SubstringPairs == {<<"german", "germany">>, <<"site", "sitecore">>, <<"demo", "demo corp">>}
contentIncludes(content, keyword) ==
    \E w \in content : w = keyword \/ <<keyword, w>> \in SubstringPairs

\* findComparables: extractSector, the table in its iteration order
sectorPatterns ==
    << [sector |-> "Technology",
        keywords |-> {"technology", "tech", "it services", "software", "digital", "consulting"}],
       [sector |-> "Finance",
        keywords |-> {"finance", "financial", "bank", "investment", "insurance"}],
       [sector |-> "Healthcare",
        keywords |-> {"healthcare", "health", "medical", "pharmaceutical"}],
       [sector |-> "Manufacturing", keywords |-> {"manufacturing", "production", "industrial"}],
       [sector |-> "Retail", keywords |-> {"retail", "commerce", "consumer"}],
       [sector |-> "Energy", keywords |-> {"energy", "oil", "gas", "renewable"}],
       [sector |-> "Consulting",
        keywords |-> {"consulting", "advisory", "professional services"}] >>

\* the first entry of the table with a keyword in the content, 0 when none
firstMatch(table, content) ==
    LET hits == {i \in 1..Len(table) :
                    \E k \in table[i].keywords : contentIncludes(content, k)}
    IN IF hits = {} THEN 0 ELSE CHOOSE i \in hits : \A j \in hits : i <= j

extractSector(content) ==
    LET i == firstMatch(sectorPatterns, content)
    IN IF i = 0 THEN "Technology" ELSE sectorPatterns[i].sector

countries ==
    << [country |-> "France", keywords |-> {"france", "french", "paris"}],
       [country |-> "United States", keywords |-> {"usa", "united states", "america"}],
       [country |-> "United Kingdom", keywords |-> {"uk", "united kingdom", "britain"}],
       [country |-> "Germany", keywords |-> {"germany", "german"}],
       [country |-> "China", keywords |-> {"china", "chinese"}],
       [country |-> "Japan", keywords |-> {"japan", "japanese"}] >>

\* null is ""
extractCountry(content) ==
    LET i == firstMatch(countries, content)
    IN IF i = 0 THEN "" ELSE countries[i].country

guessSizeCategory(content) ==
    IF \E k \in {"multinational", "global", "fortune"} : contentIncludes(content, k)
    THEN "large"
    ELSE IF \E k \in {"startup", "small"} : contentIncludes(content, k)
    THEN "small"
    ELSE "medium"

RECURSIVE Flatten(_)
Flatten(seqs) == IF seqs = <<>> THEN <<>> ELSE Head(seqs) \o Flatten(Tail(seqs))

\* the items of searchResults.searchResults[*].results, in order
allResultsOf(collected) == Flatten([i \in 1..Len(collected) |-> collected[i].results])

contentOf(items) == UNION {itemText(items[i]) : i \in 1..Len(items)}

createProfileFromSearch(companyName, collected) ==
    LET allResults == allResultsOf(collected)
        allContent == contentOf(allResults)
    IN [name |-> companyName,
        sector |-> extractSector(allContent),
        country |-> extractCountry(allContent),
        size_category |-> guessSizeCategory(allContent),
        confidence |-> IF Len(allResults) > 5 THEN 80 ELSE 60]

\* names matched by one of isValidCompanyName's invalidPatterns
matchesInvalidPattern(name) == name \in {"The Firm"}

isValidCompanyNameAnyCase(name, referenceName) ==
    /\ ~(length(name) < 3 \/ length(name) > 100)
    /\ name # referenceName
    /\ ~matchesInvalidPattern(name)

isValidCompanyName(name, referenceName) ==
    /\ ~(length(name) < 3 \/ length(name) > 100)
    /\ toLowerCase(name) # toLowerCase(referenceName)
    /\ ~matchesInvalidPattern(name)

\* analyzeMetrics: isValidExtractedCompany
isValidExtractedCompany(name, excludeName) ==
    /\ ~(length(name) < 3 \/ length(name) > 50)
    /\ toLowerCase(name) # toLowerCase(excludeName)
    /\ ~\E term \in {"page", "article", "news", "site", "www", "http", "com"} :
            contentIncludes({toLowerCase(name)}, term)

\* the candidates made of the names kept from one result item
companiesOfItem(item, names) ==
    [i \in 1..Len(names) |->
        [name |-> names[i],
         sector |-> extractSector(itemText(item)),
         country |-> extractCountry(itemText(item)),
         size_category |-> "",
         confidence |-> 60]]

\* findComparables: extractCompaniesFromResults
extractCompaniesFromResults(searchResults, referenceProfile) ==
    LET valid(name) == isValidCompanyName(name, referenceProfile.name)
    IN Flatten([i \in 1..Len(searchResults) |->
                   companiesOfItem(searchResults[i],
                                   SelectSeq(mentions(searchResults[i]), valid))])

\* analyzeMetrics: extractCompaniesFromSearchResults
extractCompaniesFromSearchResults(results, excludeName) ==
    LET valid(name) == isValidExtractedCompany(name, excludeName)
    IN Flatten([i \in 1..Len(results) |->
                   companiesOfItem(results[i], SelectSeq(mentions(results[i]), valid))])

\* name.toLowerCase().replace(/[^a-z0-9]/g, '')
dedupeKeyLowerOnly(name) == toLowerCase(name)
dedupeKey(name) ==
    LET lower == toLowerCase(name)
    IN CASE lower = "acme sa" -> "acmesa"
         [] lower = "the firm" -> "thefirm"
         [] lower = "acme corp" -> "acmecorp"
         [] lower = "acme-corp" -> "acmecorp"
         [] OTHER -> lower

RECURSIVE dedupeRange(_, _, _)
\* the first element of each key among comparables[lo..hi], in order: those of
\* the first half, then those of the second half whose key is new
dedupeRange(comparables, lo, hi) ==
    IF lo > hi THEN <<>>
    ELSE IF lo = hi THEN <<comparables[lo]>>
    ELSE LET mid == (lo + hi) \div 2
             left == dedupeRange(comparables, lo, mid)
             right == dedupeRange(comparables, mid + 1, hi)
             seen == {dedupeKey(left[i].name) : i \in 1..Len(left)}
         IN left \o SelectSeq(right, LAMBDA comp : dedupeKey(comp.name) \notin seen)

\* deduplicateComparables: the first of each key is kept
deduplicateComparables(comparables) == dedupeRange(comparables, 1, Len(comparables))

RECURSIVE filterUnseen(_, _, _)
\* companies.filter(...) from element i on, with the Set `seen` of the keys met
filterUnseen(companies, i, seen) ==
    IF i > Len(companies) THEN <<>>
    ELSE IF dedupeKey(companies[i].name) \in seen
    THEN filterUnseen(companies, i + 1, seen)
    ELSE <<companies[i]>>
         \o filterUnseen(companies, i + 1, seen \cup {dedupeKey(companies[i].name)})

\* analyzeMetrics: deduplicateByName
deduplicateByName(companies) == filterUnseen(companies, 1, {})

RECURSIVE sortBySimilarity(_)
\* Array.prototype.sort((a, b) => b.similarityScore - a.similarityScore), which
\* is stable: the entries with the highest score, in their order, then the rest
sortBySimilarity(scored) ==
    IF scored = <<>> THEN <<>>
    ELSE LET values == {scored[i].similarityScore : i \in 1..Len(scored)}
             top == CHOOSE v \in values : \A w \in values : v >= w
         IN SelectSeq(scored, LAMBDA c : c.similarityScore = top)
            \o sortBySimilarity(SelectSeq(scored, LAMBDA c : c.similarityScore # top))

\* Array.prototype.slice(0, n)
slice(seq, n) == SubSeq(seq, 1, MathMin(n, Len(seq)))

\* findComparables lines 89-94: each comparable with its similarityScore
scoreEach(referenceProfile, uniqueComparables) ==
    [i \in 1..Len(uniqueComparables) |->
        [name |-> uniqueComparables[i].name,
         sector |-> uniqueComparables[i].sector,
         country |-> uniqueComparables[i].country,
         size_category |-> uniqueComparables[i].size_category,
         confidence |-> uniqueComparables[i].confidence,
         similarityScore |->
             calculateSimilarityScore(referenceProfile, uniqueComparables[i])]]

\* findComparables lines 88-94: dedupe, then score
scoreComparables(referenceProfile, allComparables) ==
    scoreEach(referenceProfile, deduplicateComparables(allComparables))

passesFilterAlways(comp, minSimilarity) == TRUE
passesFilter(comp, minSimilarity) == comp.similarityScore >= 100 * minSimilarity

filterComparables(scoredComparables, minSimilarity, maxResults) ==
    LET keep(comp) == passesFilter(comp, minSimilarity)
    IN slice(sortBySimilarity(SelectSeq(scoredComparables, keep)),
             MathMin(maxResults, ResultCap))

----------------------------------------------------------------------------
(* searchWeb as the handlers await it: the invocation enters (up to its    *)
(* first await, or to its return) and later settles with what the token    *)
(* endpoint and the backend answer (env).  Both work on the service's      *)
(* fields gathered in a record.                                            *)

LookupResultLists == {<<>>, <<"p1">>}
FanoutResultLists == {<<"i1", "i2", "i3">>, <<"bulk">>}
DeepResultLists == {<<"p1", "r1">>}

okEnvs(lists) ==
    {[token |-> "granted", expiresIn |-> 3, backend |-> "ok", results |-> r] : r \in lists}
failedEnvs ==
    {[token |-> "rejected", expiresIn |-> 0, backend |-> "ok", results |-> <<>>]}
    \cup {[token |-> "granted", expiresIn |-> 3, backend |-> b, results |-> <<>>] :
             b \in {"non2xx", "timeout", "notJson"}}
LookupEnvs == okEnvs(LookupResultLists) \cup failedEnvs
FanoutEnvs == okEnvs(FanoutResultLists) \cup failedEnvs
DeepEnvs == okEnvs(DeepResultLists) \cup failedEnvs

\* the environment fails at most MaxHandlerFailures requests per behaviour
MayAnswer(env) == env \in failedEnvs => failures < MaxHandlerFailures

backendError(kind) ==
    CASE kind = "non2xx" -> "Erreur de recherche SearXNG"
      [] kind = "timeout" -> "Timeout de 30 secondes depasse pour la recherche SearXNG"
      [] OTHER -> "Reponse non JSON recue du serveur SearXNG"

serviceNow ==
    [stats |-> stats, cache |-> cache, filled |-> filled, accessToken |-> accessToken,
     tokenExpiry |-> tokenExpiry, lastStore |-> lastStore, nextId |-> nextId,
     failures |-> failures]

NoCall == [query |-> <<>>, focusMode |-> NoFocus, optimizedQuery |-> <<>>,
           cacheKey |-> <<>>, tokenCached |-> FALSE]

\* lines 98-137 and getAccessToken line 58: the invocation has returned (a
\* structured error or a cached result) or awaits the answers to its requests
searchWebEnter(svc, query, options, focusArg) ==
    LET focusMode == IF focusArg = NoFocus THEN detectOptimalFocus(query) ELSE focusArg
        optimizedParams == applySearchFocus(searchParams(query, options), focusMode)
        cacheKey == CacheKey(optimizedParams, focusMode)
        counted == [svc EXCEPT !.stats.totalRequests = @ + 1]
        call == [query |-> query, focusMode |-> focusMode,
                 optimizedQuery |-> optimizedParams.query, cacheKey |-> cacheKey,
                 tokenCached |-> TokenValid(svc.accessToken, svc.tokenExpiry, now)]
    IN IF configurationError
       THEN [svc |-> [counted EXCEPT
                         !.stats.errors =
                             Append(@, [timestamp |-> now,
                                        error |-> "Configuration Azure AD incorrecte",
                                        query |-> query, focusMode |-> NoFocus])],
             settled |-> TRUE, threw |-> FALSE, error |-> "",
             result |-> notConfiguredResult(query), call |-> call]
       ELSE IF cacheKey \in DOMAIN svc.cache /\ IsFresh(svc.cache[cacheKey], now)
       THEN [svc |-> [counted EXCEPT !.stats.cachedRequests = @ + 1],
             settled |-> TRUE, threw |-> FALSE, error |-> "",
             result |-> cachedResult(svc.cache[cacheKey].data, focusMode), call |-> call]
       ELSE [svc |-> counted, settled |-> FALSE, threw |-> FALSE, error |-> "",
             result |-> NoResult, call |-> call]

\* getAccessToken lines 75-92 and searchWeb lines 157-265
searchWebSettle(svc, call, env) ==
    LET data == [id |-> svc.nextId, issuedAt |-> now, expiresIn |-> env.expiresIn]
        authed == IF call.tokenCached THEN svc
                  ELSE [svc EXCEPT !.accessToken = data,
                                   !.tokenExpiry = ExpiryOf(data, now),
                                   !.lastStore = [token |-> data, at |-> now],
                                   !.nextId = @ + 1]
    IN IF ~call.tokenCached /\ env.token = "rejected"
       THEN [svc |-> [svc EXCEPT
                         !.stats.errors =
                             Append(@, errorEntry("Erreur obtention token Azure AD", call)),
                         !.failures = @ + 1],
             settled |-> TRUE, threw |-> TRUE, error |-> "Erreur obtention token Azure AD",
             result |-> NoResult, call |-> call]
       ELSE IF env.backend # "ok"
       THEN [svc |-> [authed EXCEPT
                         !.stats.errors =
                             Append(Append(@, errorEntry(backendError(env.backend), call)),
                                    errorEntry(backendError(env.backend), call)),
                         !.failures = @ + 1],
             settled |-> TRUE, threw |-> TRUE, error |-> backendError(env.backend),
             result |-> NoResult, call |-> call]
       ELSE LET body == [shape |-> "json", results |-> env.results]
                formattedResults == formatSearchResults(ParseBody(body), call)
                keys == DOMAIN svc.cache \cup {call.cacheKey}
            IN [svc |-> [authed EXCEPT
                            !.cache = [k \in keys |->
                                          IF k = call.cacheKey
                                          THEN [data |-> formattedResults, timestamp |-> now]
                                          ELSE svc.cache[k]],
                            !.filled = [k \in keys |->
                                           IF k = call.cacheKey
                                           THEN [body |-> body, at |-> now,
                                                 returned |-> formattedResults]
                                           ELSE svc.filled[k]],
                            !.stats.successfulRequests = @ + 1],
                settled |-> TRUE, threw |-> FALSE, error |-> "",
                result |-> formattedResults, call |-> call]

\* an invocation that has entered runs to its end
runFrom(entered, env) ==
    IF entered.settled THEN entered
    ELSE searchWebSettle(entered.svc, entered.call, env)

\* `await this.searchWeb(query, options, focusMode)`
searchWebRun(query, options, focusArg, env) ==
    runFrom(searchWebEnter(serviceNow, query, options, focusArg), env)

\* the service takes the fields the invocation left
ServiceAfter(svc) ==
    /\ stats' = svc.stats
    /\ cache' = svc.cache
    /\ filled' = svc.filled
    /\ accessToken' = svc.accessToken
    /\ tokenExpiry' = svc.tokenExpiry
    /\ lastStore' = svc.lastStore
    /\ nextId' = svc.nextId
    /\ failures' = svc.failures
    /\ UNCHANGED <<now, settings, configurationError, calls, started, horizon>>

----------------------------------------------------------------------------
(* The endpoint handlers, stepped at the searchWeb invocations they await, *)
(* and AnalysisService.analyzeCompany.  One request per behaviour.         *)

Endpoints == {"searchCompany", "getCompanyDetails", "findComparables", "analyzeMetrics"}
RequestNames == {"", "A", "Acme SA", "demo corp"}
\* the options a request carries: the defaults of the handlers (10, 50, true),
\* and for findComparables a request above the cap of 50 results with a low
\* threshold, and requests with a high threshold
DefaultOptions == [maxResults |-> 10, minSimilarity |-> 50, preferSameCountry |-> TRUE]
ComparableOptions ==
    {DefaultOptions,
     [maxResults |-> 60, minSimilarity |-> 30, preferSameCountry |-> FALSE],
     [maxResults |-> 1, minSimilarity |-> 30, preferSameCountry |-> TRUE],
     [maxResults |-> 10, minSimilarity |-> 80, preferSameCountry |-> FALSE]}
RequestOptions(op) ==
    CASE op = "findComparables" -> ComparableOptions
      [] op = "analyzeMetrics" -> {DefaultOptions, [DefaultOptions EXCEPT !.maxResults = 1]}
      [] OTHER -> {DefaultOptions}

handlerOptions == [language |-> "fr", page |-> 1, engines |-> "", categories |-> ""]
fanoutOptions == [language |-> "fr", page |-> 1, engines |-> "google,duckduckgo",
                  categories |-> ""]
deepOptions == [maxResults |-> 5, language |-> "en", engines |-> "",
                categories |-> "general,news"]

\* the deny lists of the four handlers
suspiciousTerms(op) ==
    CASE op = "searchCompany" -> {"test", "exemple", "sample", "demo", "fake"}
      [] op = "findComparables" ->
            {"test", "exemple", "sample", "demo", "fake", "null", "undefined"}
      [] op = "analyzeMetrics" -> {"test", "demo", "fake", "sample", "null", "undefined"}
      [] OTHER -> {"test", "fake", "demo", "sample", "xxx", "null", "undefined"}

containsSuspiciousContent(op, text) ==
    \E term \in suspiciousTerms(op) : contentIncludes({toLowerCase(text)}, term)

\* getCompanyDetails: isValidIdentifier
isValidIdentifier(identifier) ==
    /\ identifier # ""
    /\ ~(length(identifier) < 1 \/ length(identifier) > 50)
    /\ toLowerCase(identifier) \notin suspiciousTerms("getCompanyDetails")

\* the 400 answers: "" when the request passes the validations
validationError(op, companyName) ==
    IF op = "getCompanyDetails"
    THEN IF companyName = "" THEN "Parametre manquant"
         ELSE IF ~isValidIdentifier(companyName) THEN "Identifiant invalide"
         ELSE ""
    ELSE IF length(companyName) < 2 \/ length(companyName) > 100 THEN "Parametres invalides"
         ELSE IF containsSuspiciousContent(op, companyName)
         THEN "Nom d'entreprise non autorise"
         ELSE ""

\* createErrorResponse(statusCode, message, details)
createErrorResponse(h, statusCode, message, error) ==
    [h EXCEPT !.pc = "responded", !.status = statusCode, !.message = message,
              !.timestamp = TRUE, !.errorMessage = error]

\* createResponse(200, response)
createResponse(h, comparables, profile) ==
    [h EXCEPT !.pc = "responded", !.status = 200, !.comparables = comparables,
              !.profile = profile]

notFoundMessage(op) ==
    CASE op = "searchCompany" -> "Entreprise non trouvee via recherche web"
      [] op = "findComparables" -> "Entreprise de reference non trouvee"
      [] OTHER -> "Entreprise non trouvee"

\* findComparables: generateComparableSearchQueries
generateComparableSearchQueries(referenceProfile, preferSameCountry) ==
    LET sector == IF referenceProfile.sector # "" THEN referenceProfile.sector
                  ELSE "Technology"
        country == IF referenceProfile.country # "" THEN referenceProfile.country
                   ELSE "France"
        size == IF referenceProfile.size_category # "" THEN referenceProfile.size_category
                ELSE "medium"
        lower == toLowerCase(sector)
    IN (IF preferSameCountry /\ country # ""
        THEN << [search |-> <<"entreprises", lower, country>>,
                 focusMode |-> "companyResearch"] >>
        ELSE <<>>)
       \o << [search |-> <<"concurrents", lower, "entreprises", "similaires">>,
              focusMode |-> "competitorAnalysis"],
             [search |-> <<"entreprises", lower, size, "taille">>,
              focusMode |-> "companyResearch"],
             [search |-> <<"leaders", lower, "top", "entreprises">>,
              focusMode |-> "marketAnalysis"] >>
       \o (IF ~preferSameCountry
           THEN << [search |-> <<"international", lower, "companies">>,
                    focusMode |-> "companyResearch"] >>
           ELSE <<>>)
       \o (IF contentIncludes({lower}, "technology") \/ contentIncludes({lower}, "consulting")
           THEN << [search |-> <<"societes", "conseil", "technologie", "consulting">>,
                    focusMode |-> "companyResearch"] >>
           ELSE <<>>)

\* analyzeMetrics: the searchQueries of findComparablesAutomatically
automaticSearchQueries(mainProfile) ==
    LET sector == IF mainProfile.sector # "" THEN mainProfile.sector ELSE "technology"
    IN << [search |-> <<"concurrents", sector, mainProfile.country>>,
           focusMode |-> "competitorAnalysis"],
          [search |-> <<"entreprises", "similaires", sector>>,
           focusMode |-> "competitorAnalysis"],
          [search |-> <<"leaders", sector, "secteur">>,
           focusMode |-> "competitorAnalysis"] >>

\* AnalysisService.deepWebAnalysis: searches
deepSearches(companyName) ==
    LET q == Quote(companyName)
    IN << [search |-> <<q, "company", "business", "profile", "activity">>, focusMode |-> NoFocus],
          [search |-> <<q, "sector", "industry", "market", "business", "model">>,
           focusMode |-> NoFocus],
          [search |-> <<q, "revenue", "employees", "size", "funding">>, focusMode |-> NoFocus],
          [search |-> <<q, "competitors", "benchmark", "sector">>, focusMode |-> NoFocus],
          [search |-> <<q, "management", "headquarters", "address">>, focusMode |-> NoFocus],
          [search |-> <<q, "funding", "investment", "growth">>, focusMode |-> NoFocus],
          [search |-> <<q, "valuation", "assessment", "price", "sale">>,
           focusMode |-> NoFocus] >>

\* confidence of the profile a handler builds from n result items
profileConfidence(op, n) ==
    IF op = "searchCompany" THEN (IF n > 5 THEN 80 ELSE 60)
    ELSE (IF n > 10 THEN 90 ELSE 70)

\* The handler goes on with the profile built from the lookup.
withProfile(h, profile, own) ==
    CASE h.op = "findComparables" ->
            [h EXCEPT !.pc = "fanout", !.reference = profile,
                      !.queries = generateComparableSearchQueries(profile,
                                                                  h.preferSameCountry)]
      [] h.op = "analyzeMetrics" ->
            IF h.maxResults > 0
            THEN [h EXCEPT !.pc = "fanout", !.reference = own,
                           !.queries = automaticSearchQueries(own)]
            ELSE createResponse(h, <<>>, own)
      [] OTHER ->
            IF own.confidence < 10
            THEN createErrorResponse(h, 404, "Analyse echouee", "")
            ELSE createResponse(h, <<>>, own)

\* the test the handler makes on the result of searchCompanyInfo
lookupFoundNothing(op, result) ==
    IF op \in {"searchCompany", "getCompanyDetails"}
    THEN \/ ~result.success
         \/ "searchResults" \notin DOMAIN result
         \/ Len(result.searchResults) = 0
    ELSE ~result.success

\* the profile with the confidence the handler gives it
ownProfile(op, profile, n) == [profile EXCEPT !.confidence = profileConfidence(op, n)]

\* The handler after `await searchService.searchCompanyInfo(...)`.
afterLookup(h, result) ==
    IF lookupFoundNothing(h.op, result)
    THEN createErrorResponse(h, 404, notFoundMessage(h.op), "")
    ELSE withProfile(h, createProfileFromSearch(h.companyName, result.searchResults),
                     ownProfile(h.op,
                                createProfileFromSearch(h.companyName, result.searchResults),
                                Len(allResultsOf(result.searchResults))))

\* searchCompanyInfo lines 269-277
sciNotConfigured(companyName) ==
    [success |-> FALSE, error |-> "Service de recherche web non configure",
     results |-> <<>>, query |-> companyName, configured |-> FALSE]

\* the request as the handler reads it from the body
requestOf(op, companyName, options) ==
    [NoRequest EXCEPT !.op = op, !.companyName = companyName,
                      !.maxResults = options.maxResults,
                      !.minSimilarity = options.minSimilarity,
                      !.preferSameCountry = options.preferSameCountry]

\* the handler from its entry to its first searchWeb
accept(h, wellFormed) ==
    IF ~wellFormed
    THEN createErrorResponse([NoRequest EXCEPT !.op = h.op], 500,
                             "Erreur interne du serveur", "Unexpected end of JSON input")
    ELSE IF validationError(h.op, h.companyName) # ""
    THEN createErrorResponse(h, 400, validationError(h.op, h.companyName), "")
    ELSE IF configurationError
    THEN afterLookup(h, sciNotConfigured(h.companyName))
    ELSE [h EXCEPT !.pc = "lookup"]

\* The request arrives: `await request.json()`, the validations, and the call
\* of searchCompanyInfo up to its first searchWeb.
ReceiveRequest ==
    /\ handler.pc = "none"
    /\ \E op \in Endpoints, companyName \in RequestNames, wellFormed \in BOOLEAN :
          \E options \in RequestOptions(op) :
             handler' = accept(requestOf(op, companyName, options), wellFormed)
    /\ UNCHANGED <<svcVars, scoring, evaluation>>

\* the sub-queries of the lookup in progress
lookupQueries(h) == searchQueries(h.companyName, detectCompanyGeography(h.companyName))

\* searchCompanyInfo lines 318-327: the loop is over
sciReturn(h) ==
    afterLookup(h, [success |-> Len(h.collected) > 0,
                    searchResults |-> h.collected,
                    totalQueries |-> Len(lookupQueries(h)),
                    successfulQueries |-> Len(h.collected),
                    companyName |-> h.companyName,
                    detectedGeography |-> detectCompanyGeography(h.companyName)])

\* searchCompanyInfo after `await this.searchWeb(...)` for sub-query sq: its
\* catch (lines 328-335), or the push and the next pass
sciResume(h, sq, run) ==
    IF run.threw
    THEN afterLookup([h EXCEPT !.idx = @ + 1, !.lookupError = run.error],
                     [success |-> FALSE, error |-> "Erreur recherche entreprise",
                      results |-> <<>>, query |-> h.companyName])
    ELSE IF h.idx + 1 < Len(lookupQueries(h))
    THEN [h EXCEPT !.idx = @ + 1,
                   !.collected = IF "results" \in DOMAIN run.result
                                 THEN Append(@, [query |-> sq.query,
                                                 focusMode |-> sq.focusMode,
                                                 results |-> run.result.results])
                                 ELSE @]
    ELSE sciReturn([h EXCEPT !.idx = @ + 1,
                             !.collected = IF "results" \in DOMAIN run.result
                                           THEN Append(@, [query |-> sq.query,
                                                           focusMode |-> sq.focusMode,
                                                           results |-> run.result.results])
                                           ELSE @])

LookupStep(env, sq, run) ==
    /\ env \in failedEnvs => run.threw
    /\ ServiceAfter(run.svc)
    /\ handler' = sciResume(handler, sq, run)

lookupRun(h, sq, env) ==
    searchWebRun(sq.query,
                 sciOptions(handlerOptions, detectCompanyGeography(h.companyName)),
                 sq.focusMode, env)

\* searchCompanyInfo: one pass of its loop, `await this.searchWeb(...)` and what
\* follows it; after the last pass, or in its catch, it returns to the handler.
LookupQuery ==
    /\ handler.pc = "lookup"
    /\ \E env \in LookupEnvs :
          /\ MayAnswer(env)
          /\ LookupStep(env, lookupQueries(handler)[handler.idx + 1],
                        lookupRun(handler, lookupQueries(handler)[handler.idx + 1], env))
    /\ UNCHANGED <<scoring, evaluation>>

\* what one pass of the fan-out loop pushes: nothing when searchWeb threw
subQueryFoundFirstOnly(h, run) ==
    IF run.threw \/ ~run.result.success THEN <<>>
    ELSE slice(extractCompaniesFromResults(run.result.results, h.reference), 1)
subQueryFound(h, run) ==
    IF run.threw THEN <<>>
    ELSE IF run.result.success /\ "results" \in DOMAIN run.result
    THEN IF h.op = "findComparables"
         THEN extractCompaniesFromResults(run.result.results, h.reference)
         ELSE extractCompaniesFromSearchResults(run.result.results, h.reference.name)
    ELSE <<>>

\* findComparables lines 102-169: 404 when nothing is left, else 200
respondComparables(h, filteredComparables) ==
    IF Len(filteredComparables) = 0
    THEN createErrorResponse(h, 404, "Aucune entreprise comparable trouvee", "")
    ELSE createResponse(h, filteredComparables, h.reference)

\* The handler after the last pass of its fan-out loop.
afterFanout(h) ==
    IF h.op = "findComparables"
    THEN respondComparables(h, filterComparables(
                                   scoreComparables(h.reference, h.allComparables),
                                   h.minSimilarity, h.maxResults))
    ELSE createResponse(h, slice(deduplicateByName(h.allComparables), h.maxResults),
                        h.reference)

\* the loop goes on to its next query whatever the last one did
fanoutNext(h) == IF Len(h.outcomes) < Len(h.queries) THEN h ELSE afterFanout(h)

\* the outcome of an invocation: whether it threw, and the items it returned
outcomeOf(run) ==
    [settled |-> TRUE, threw |-> run.threw,
     answered |-> IF run.threw THEN <<>> ELSE run.result.results, call |-> run.call]

FanoutStep(env, run) ==
    /\ env \in failedEnvs => run.threw
    /\ ServiceAfter(run.svc)
    /\ handler' = fanoutNext([handler EXCEPT
                                 !.outcomes = Append(@, outcomeOf(run)),
                                 !.allComparables = @ \o subQueryFound(handler, run)])

fanoutRun(h, q, env) ==
    searchWebRun(q.search,
                 IF h.op = "findComparables" THEN fanoutOptions ELSE handlerOptions,
                 q.focusMode, env)

\* One pass of the fan-out loop of findComparables or findComparablesAutomatically:
\* `await searchService.searchWeb(...)` inside its try/catch.
FanoutQuery ==
    /\ handler.pc = "fanout"
    /\ \E env \in FanoutEnvs :
          /\ MayAnswer(env)
          /\ FanoutStep(env, fanoutRun(handler, handler.queries[Len(handler.outcomes) + 1],
                                       env))
    /\ UNCHANGED <<scoring, evaluation>>

RECURSIVE enterAll(_, _, _, _)
\* searches.map(async (query) => ...): the invocations enter one after another;
\* the service after the last of them, and the invocations
enterAll(svc, searches, i, entered) ==
    IF i > Len(searches) THEN [svc |-> svc, entered |-> entered]
    ELSE enterAll(searchWebEnter(svc, searches[i].search, deepOptions, NoFocus).svc,
                  searches, i + 1,
                  Append(entered,
                         searchWebEnter(svc, searches[i].search, deepOptions, NoFocus)))

\* text.includes(companyName.toLowerCase())
isRelevantResult(companyName, item) ==
    contentIncludes(itemText(item), toLowerCase(companyName))

\* extractCompanyProfile: the items of the results that are not null
evidence(outcomes) ==
    Flatten([i \in 1..Len(outcomes) |->
                IF outcomes[i].threw THEN <<>> ELSE outcomes[i].answered])

profileFrom(h, items, relevant) ==
    [h EXCEPT !.pc = "returned",
              !.totalResults = Len(items),
              !.relevantResults = relevant,
              !.profile = [NoProfile EXCEPT
                              !.name = h.companyName,
                              !.confidence = IF relevant > 0
                                             THEN MathMin(relevant * 10, 100) ELSE 0]]

relevantCount(companyName, items) ==
    Len(SelectSeq(items, LAMBDA item : isRelevantResult(companyName, item)))

\* deepWebAnalysis after Promise.all: extractCompanyProfile
afterDeepWebAnalysis(h) ==
    profileFrom(h, evidence(h.outcomes), relevantCount(h.companyName, evidence(h.outcomes)))

\* Promise.all resolves when every invocation has settled
deepNext(h) ==
    IF \A i \in 1..Len(h.outcomes) : h.outcomes[i].settled
    THEN afterDeepWebAnalysis(h) ELSE h

StartStep(companyName, searches, all) ==
    /\ ServiceAfter(all.svc)
    /\ handler' =
          deepNext([NoRequest EXCEPT
                       !.op = "deepWebAnalysis", !.companyName = companyName,
                       !.pc = "settling", !.queries = searches,
                       !.outcomes = [i \in 1..Len(searches) |->
                                        IF all.entered[i].settled
                                        THEN outcomeOf(all.entered[i])
                                        ELSE [settled |-> FALSE, threw |-> FALSE,
                                              answered |-> <<>>,
                                              call |-> all.entered[i].call]]])

\* AnalysisService.deepWebAnalysis is called: the seven searchWeb invocations
\* enter, each inside its own try/catch.
StartDeepWebAnalysis ==
    /\ handler.pc = "none"
    /\ \E companyName \in {"Acme SA"} :
          StartStep(companyName, deepSearches(companyName),
                    enterAll(serviceNow, deepSearches(companyName), 1, <<>>))
    /\ UNCHANGED <<scoring, evaluation>>

SettleStep(i, env, run) ==
    /\ env \in failedEnvs => run.threw
    /\ ServiceAfter(run.svc)
    /\ handler' = deepNext([handler EXCEPT !.outcomes[i] = outcomeOf(run)])

\* One of the pending invocations settles: its result, or null from its catch.
SettleDeepQuery ==
    /\ handler.pc = "settling"
    /\ \E i \in 1..Len(handler.outcomes), env \in DeepEnvs :
          /\ ~handler.outcomes[i].settled
          /\ MayAnswer(env)
          /\ SettleStep(i, env, searchWebSettle(serviceNow, handler.outcomes[i].call, env))
    /\ UNCHANGED <<scoring, evaluation>>

InitHandler ==
    /\ InitService
    /\ settings \in {RequiredSettings, RequiredSettings \ {"TOKEN_URL"}}
    /\ horizon = 0
    /\ InitApp

NextHandler ==
    \/ ReceiveRequest
    \/ LookupQuery
    \/ FanoutQuery
    \/ StartDeepWebAnalysis
    \/ SettleDeepQuery

SpecHandler == InitHandler /\ [][NextHandler]_vars

----------------------------------------------------------------------------
(* Properties of the scoring and of the handlers *)

\* the claims' own statement of the score, in points
PresentOnBoth(a, b) == a # "" /\ b # ""
ComparableFactorCount(r, c) ==
    Cardinality({f \in {"sector", "country", "size_category"} : PresentOnBoth(r[f], c[f])})
StatedSectorPts(r, c) ==
    IF ~PresentOnBoth(r.sector, c.sector) THEN 0
    ELSE IF toLowerCase(r.sector) = toLowerCase(c.sector) THEN 40
    ELSE IF areSimilarSectors(r.sector, c.sector) THEN 25 ELSE 0
StatedCountryPts(r, c) ==
    IF ~PresentOnBoth(r.country, c.country) THEN 0
    ELSE IF r.country = c.country THEN 30
    ELSE IF areSimilarRegions(r.country, c.country) THEN 15 ELSE 0
StatedSizePts(r, c) ==
    IF ~PresentOnBoth(r.size_category, c.size_category) THEN 0
    ELSE IF r.size_category = c.size_category THEN 20
    ELSE IF areSimilarSizes(r.size_category, c.size_category) THEN 10 ELSE 0
\* round(sectorPts + countryPts + sizePts + confidence*10), in hundredths
StatedScore(r, c) ==
    MathMin(10000,
            MathRound(100 * (StatedSectorPts(r, c) + StatedCountryPts(r, c)
                             + StatedSizePts(r, c)) + 10 * c.confidence))

Scored == scoring.phase = "returned"

\* C7: with at least 2 of sector, country and size present on both sides and
\* confidence in [0,1], the score is min(100, round(sectorPts + countryPts +
\* sizePts + confidence*10)).
C7_AsStated ==
    (Scored /\ ComparableFactorCount(scoring.reference, scoring.comparable) >= 2) =>
        scoring.score = StatedScore(scoring.reference, scoring.comparable)

\* C8: the 40-point floor is applied exactly when fewer than 2 of the three
\* factors are present on both sides, and then the result is max(raw score, 40);
\* with 2 or 3 factors the result is the rounded raw score capped at 100, with
\* no floor.
C8_FloorExactlyBelowTwoFactors ==
    Scored =>
        LET r == scoring.reference
            c == scoring.comparable
            raw == rawScore(r, c)
        IN IF ComparableFactorCount(r, c) < 2
           THEN scoring.score = MathMax(raw, 4000) /\ scoring.score >= 4000
           ELSE scoring.score = MathMin(MathRound(raw), 10000)

\* all three fields on both sides, nothing shared: the score is below 40
C8_Witness ==
    /\ Scored
    /\ ComparableFactorCount(scoring.reference, scoring.comparable) = 3
    /\ StatedSectorPts(scoring.reference, scoring.comparable) = 0
    /\ StatedCountryPts(scoring.reference, scoring.comparable) = 0
    /\ StatedSizePts(scoring.reference, scoring.comparable) = 0
    /\ scoring.score < 4000

\* C9: the score is an integer between 0 and 100, on the floored path too.
C9_AsStated ==
    Scored =>
        /\ scoring.score % 100 = 0
        /\ scoring.score >= 0
        /\ scoring.score <= 10000

----------------------------------------------------------------------------
(* Properties of the handlers.                                             *)

\* the candidates a sequence of sub-query outcomes leaves: those extracted
\* from the answer of each sub-query that did not throw, in the order of the
\* sub-queries
CandidatesOf(h, outcomes) ==
    Flatten([i \in 1..Len(outcomes) |->
                IF outcomes[i].threw THEN <<>>
                ELSE IF h.op = "findComparables"
                THEN extractCompaniesFromResults(outcomes[i].answered, h.reference)
                ELSE extractCompaniesFromSearchResults(outcomes[i].answered,
                                                       h.reference.name)])

RECURSIVE ItemsAnswered(_)
\* the number of items answered by the sub-queries that did not throw
ItemsAnswered(outcomes) ==
    IF outcomes = <<>> THEN 0
    ELSE (IF Head(outcomes).threw THEN 0 ELSE Len(Head(outcomes).answered))
         + ItemsAnswered(Tail(outcomes))

InFanout == handler.op \in {"findComparables", "analyzeMetrics"} /\ handler.queries # <<>>

C5_AsStated ==
    handler.pc = "responded" /\ handler.op \in Endpoints =>
       /\ handler.lookupError # "" =>
             /\ handler.status >= 500
             /\ handler.errorMessage = handler.lookupError
             /\ handler.timestamp
       /\ handler.status = 404 => handler.lookupError = ""

\* C10: a findComparables request with maxResults >= 1 answered by 200 returns
\* a list (a) whose entries all have similarityScore >= minSimilarity, (b) in
\* non-increasing order of similarityScore, (c) of at most min(maxResults, 50)
\* entries, (d) none of which has the name of the reference company, compared
\* without case; when no candidate passes the filter the answer is 404, never
\* a 200 with an empty list.
C10_ComparablesFilteredSortedCapped ==
    /\ handler.pc = "responded" /\ handler.op = "findComparables"
       /\ handler.maxResults >= 1 /\ handler.status = 200 =>
          /\ Len(handler.comparables) >= 1
          /\ \A i \in 1..Len(handler.comparables) :
                /\ handler.comparables[i].similarityScore >= 100 * handler.minSimilarity
                /\ toLowerCase(handler.comparables[i].name)
                      # toLowerCase(handler.companyName)
                /\ \A j \in i..Len(handler.comparables) :
                      handler.comparables[i].similarityScore
                         >= handler.comparables[j].similarityScore
          /\ Len(handler.comparables) <= handler.maxResults
          /\ Len(handler.comparables) <= 50
    /\ handler.pc = "responded" /\ handler.op = "findComparables"
       /\ handler.maxResults >= 1 /\ Len(handler.outcomes) > 0
       /\ (\A i \in 1..Len(handler.allComparables) :
              calculateSimilarityScore(handler.reference, handler.allComparables[i])
                 < 100 * handler.minSimilarity) =>
          handler.status = 404

\* a request for 60 results is answered by 50 of them, of decreasing score,
\* while the results mentioned the reference company in another case and a
\* candidate below the threshold
C10_Witness ==
    /\ handler.pc = "responded" /\ handler.op = "findComparables"
    /\ handler.status = 200 /\ handler.maxResults = 60
    /\ Len(handler.comparables) = 50
    /\ handler.comparables[1].similarityScore > handler.comparables[50].similarityScore
    /\ \E i \in 1..Len(handler.outcomes) :
          \E k \in 1..Len(handler.outcomes[i].answered) :
             \E m \in 1..Len(mentions(handler.outcomes[i].answered[k])) :
                toLowerCase(mentions(handler.outcomes[i].answered[k])[m])
                   = toLowerCase(handler.companyName)
    /\ \E i \in 1..Len(handler.allComparables) :
          calculateSimilarityScore(handler.reference, handler.allComparables[i])
             < 100 * handler.minSimilarity

----------------------------------------------------------------------------
(* Helper functions applied on their own: `evaluation` holds the function  *)
(* applied, its arguments and, once it has returned, its result.           *)

MaxDedupeLen == 4    \* longest list given to the deduplication

DedupeNames == {"Acme Corp", "ACME CORP", "Acme-Corp", "Globex"}
DedupeCandidates ==
    {[name |-> n, sector |-> sec, country |-> "", size_category |-> "", confidence |-> 60] :
        n \in DedupeNames, sec \in {"", "Technology"}}
DedupeInputs == UNION {[1..n -> DedupeCandidates] : n \in 0..MaxDedupeLen}

deduplicate(fn, list) ==
    IF fn = "deduplicateComparables" THEN deduplicateComparables(list)
    ELSE deduplicateByName(list)

InitDedupe ==
    /\ svcIdle
    /\ scoring = NoScoring
    /\ handler = NoRequest
    /\ \E fn \in {"deduplicateComparables", "deduplicateByName"}, input \in DedupeInputs :
          evaluation = [phase |-> "called", fn |-> fn, input |-> input,
                        output |-> <<>>, again |-> <<>>]

\* the function returns
Deduplicate ==
    /\ evaluation.phase = "called"
    /\ evaluation' = [evaluation EXCEPT
                         !.phase = "returned",
                         !.output = deduplicate(evaluation.fn, evaluation.input)]
    /\ UNCHANGED <<svcVars, scoring, handler>>

\* the function is applied to what it returned
DeduplicateAgain ==
    /\ evaluation.phase = "returned"
    /\ evaluation' = [evaluation EXCEPT
                         !.phase = "reapplied",
                         !.again = deduplicate(evaluation.fn, evaluation.output)]
    /\ UNCHANGED <<svcVars, scoring, handler>>

NextDedupe == Deduplicate \/ DeduplicateAgain

SpecDedupe == InitDedupe /\ [][NextDedupe]_vars

\* the key of a name as the deduplication is meant to compute it: lower case,
\* every character outside [a-z0-9] removed
StatedKey(name) ==
    CASE name \in {"Acme Corp", "ACME CORP", "Acme-Corp"} -> "acmecorp"
      [] name \in {"Globex"} -> "globex"

\* the positions of the input that hold the first element of their key
FirstOfKey(input) ==
    {i \in 1..Len(input) :
        \A j \in 1..(i - 1) : StatedKey(input[j].name) # StatedKey(input[i].name)}

\* the k-th of a set of positions, in increasing order
NthOf(positions, k) ==
    CHOOSE i \in positions : Cardinality({j \in positions : j < i}) = k - 1

\* C11: deduplicateComparables and deduplicateByName return the subsequence of
\* their input made of the first element of each key (lower-cased name without
\* the characters outside [a-z0-9]), in the order of the input: no two elements
\* returned share a key, and applying the function to its result changes nothing.
C11_FirstOfEachKeyKept ==
    evaluation.phase \in {"returned", "reapplied"} =>
       /\ Len(evaluation.output) = Cardinality(FirstOfKey(evaluation.input))
       /\ \A k \in 1..Len(evaluation.output) :
             evaluation.output[k] = evaluation.input[NthOf(FirstOfKey(evaluation.input), k)]
       /\ \A k, l \in 1..Len(evaluation.output) :
             k # l => StatedKey(evaluation.output[k].name) # StatedKey(evaluation.output[l].name)
       /\ evaluation.phase = "reapplied" => evaluation.again = evaluation.output

\* "Acme Corp", "ACME CORP", "Acme-Corp" and another name were given, the first
\* "Acme Corp" and the other name were returned, and returned again
C11_Witness ==
    /\ evaluation.phase = "reapplied"
    /\ Len(evaluation.input) = 4
    /\ evaluation.input[1].name = "Acme Corp" /\ evaluation.input[1].sector = "Technology"
    /\ evaluation.input[2].name = "ACME CORP"
    /\ evaluation.input[3].name = "Globex"
    /\ evaluation.input[4].name = "Acme-Corp"
    /\ evaluation.output = <<evaluation.input[1], evaluation.input[3]>>
    /\ evaluation.again = evaluation.output

\* the names of RequestNames that contain a deny-listed term ("demo")
DenyListedNames == {"demo corp"}

\* C12 as stated: on each of the four endpoints a request whose name contains a
\* deny-listed term is answered by 400, and no token request and no search
\* request is issued for it.
C12_AsStated ==
    handler.op \in Endpoints /\ handler.companyName \in DenyListedNames =>
       /\ handler.pc = "responded"
       /\ handler.status = 400
       /\ stats.totalRequests = 0
       /\ nextId = 1

----------------------------------------------------------------------------
(* detectOptimalFocus and applySearchFocus applied on their own.           *)

MaxQueryWords == 3   \* longest query given to detectOptimalFocus

FocusWords == {"Revenue", "profit", "MARKET", "sector", "competitors", "comparison", "Acme"}
FocusQueries == UNION {[1..n -> FocusWords] : n \in 0..MaxQueryWords}
FocusParams ==
    [query : {<<>>, <<"Acme">>, <<"Acme", "MARKET">>},
     options : {[language |-> "fr", page |-> 1, engines |-> "", categories |-> ""]},
     engines : {"", "bing"}, categories : {"", "news"}]

InitFocus ==
    /\ svcIdle
    /\ scoring = NoScoring
    /\ handler = NoRequest
    /\ \/ \E query \in FocusQueries :
             evaluation = [phase |-> "called", fn |-> "detectOptimalFocus",
                           query |-> query, returned |-> NoFocus]
       \/ \E params \in FocusParams, focusMode \in RegisteredModes \cup {"unknownMode"} :
             evaluation = [phase |-> "called", fn |-> "applySearchFocus",
                           params |-> params, given |-> params, focusMode |-> focusMode,
                           returned |-> params, again |-> params]

\* detectOptimalFocus(query) returns
DetectOptimalFocus ==
    /\ evaluation.phase = "called"
    /\ evaluation.fn = "detectOptimalFocus"
    /\ evaluation' = [evaluation EXCEPT !.phase = "returned",
                                        !.returned = detectOptimalFocus(evaluation.query)]
    /\ UNCHANGED <<svcVars, scoring, handler>>

\* applySearchFocus(params, focusMode) returns: it wrote to its copy
\* { ...params } only, the object it was given is as it was
ApplySearchFocus ==
    /\ evaluation.phase = "called"
    /\ evaluation.fn = "applySearchFocus"
    /\ evaluation' = [evaluation EXCEPT
                         !.phase = "returned",
                         !.returned = applySearchFocus(evaluation.params,
                                                       evaluation.focusMode)]
    /\ UNCHANGED <<svcVars, scoring, handler>>

\* applySearchFocus is applied, with the same mode, to what it returned
ApplySearchFocusAgain ==
    /\ evaluation.phase = "returned"
    /\ evaluation.fn = "applySearchFocus"
    /\ evaluation' = [evaluation EXCEPT
                         !.phase = "reapplied",
                         !.again = applySearchFocus(evaluation.returned,
                                                    evaluation.focusMode)]
    /\ UNCHANGED <<svcVars, scoring, handler>>

NextFocus == DetectOptimalFocus \/ ApplySearchFocus \/ ApplySearchFocusAgain

SpecFocus == InitFocus /\ [][NextFocus]_vars

\* the number of keywords of a mode of the patterns table that occur in the query
Hits(query, mode) == KeywordScore(query, patterns[mode])

\* the modes with the highest number of hits
BestModes(query) ==
    {m \in DOMAIN patterns : \A n \in DOMAIN patterns : Hits(query, m) >= Hits(query, n)}

\* the mode with strictly the highest number of hits; companyResearch when no
\* mode has a hit or when modes tie for the highest number
StatedFocus(query) ==
    IF (\A m \in DOMAIN patterns : Hits(query, m) = 0) \/ Cardinality(BestModes(query)) > 1
    THEN "companyResearch"
    ELSE CHOOSE m \in BestModes(query) : TRUE

\* C13 as stated: detectOptimalFocus returns the mode whose keywords occur
\* strictly most often in the query, and companyResearch when no mode has a hit
\* or when two or more modes tie for the highest count.
C13_AsStated ==
    evaluation.fn = "detectOptimalFocus" /\ evaluation.phase = "returned" =>
       evaluation.returned = StatedFocus(evaluation.query)

\* C14: for a registered mode m, applySearchFocus(params, m) returns the
\* engines and categories configured for m (so does a second application), and
\* the query given followed by the first two keywords of m, so the query grows
\* at each application; the params object given is left as it was.
C14_FocusApplied ==
    evaluation.fn = "applySearchFocus" /\ evaluation.focusMode \in RegisteredModes =>
       /\ evaluation.params = evaluation.given
       /\ evaluation.phase \in {"returned", "reapplied"} =>
             /\ evaluation.returned.engines = focusModes[evaluation.focusMode].engines
             /\ evaluation.returned.categories = focusModes[evaluation.focusMode].categories
             /\ evaluation.returned.options = evaluation.given.options
             /\ evaluation.returned.query =
                   evaluation.given.query
                      \o <<focusModes[evaluation.focusMode].keywords[1],
                           focusModes[evaluation.focusMode].keywords[2]>>
             /\ Len(evaluation.returned.query) > Len(evaluation.given.query)
       /\ evaluation.phase = "reapplied" =>
             /\ evaluation.again.engines = evaluation.returned.engines
             /\ evaluation.again.categories = evaluation.returned.categories
             /\ evaluation.again.query =
                   evaluation.returned.query
                      \o <<focusModes[evaluation.focusMode].keywords[1],
                           focusModes[evaluation.focusMode].keywords[2]>>
             /\ Len(evaluation.again.query) > Len(evaluation.returned.query)
             /\ evaluation.again.query # evaluation.returned.query

\* the query "Acme" with other engines was given with marketAnalysis, twice
C14_Witness ==
    /\ evaluation.fn = "applySearchFocus" /\ evaluation.phase = "reapplied"
    /\ evaluation.focusMode = "marketAnalysis"
    /\ evaluation.given.query = <<"Acme">> /\ evaluation.given.engines = "bing"
    /\ evaluation.returned.query = <<"Acme", "market", "marche">>
    /\ evaluation.returned.engines = "google,yahoo"
    /\ evaluation.again.query = <<"Acme", "market", "marche", "market", "marche">>
    /\ evaluation.again.engines = "google,yahoo"

----------------------------------------------------------------------------
(* Properties of the statistics and of the requests of an invocation.      *)

\* C15: under every sequence and interleaving of searchWeb invocations the
\* statistics are append-only: each step leaves the entries of the error log
\* in place (the log before the step is a prefix of the log after it), and
\* totalRequests, successfulRequests and cachedRequests never decrease.
C15_StatsAppendOnly ==
    [][/\ Len(stats'.errors) >= Len(stats.errors)
       /\ SubSeq(stats'.errors, 1, Len(stats.errors)) = stats.errors
       /\ stats'.totalRequests >= stats.totalRequests
       /\ stats'.successfulRequests >= stats.successfulRequests
       /\ stats'.cachedRequests >= stats.cachedRequests]_vars

\* an invocation logged the error of its token exchange, then an invocation that
\* was in progress at that time logged the failure of its search request
C15_Witness ==
    /\ Len(stats.errors) = 3
    /\ stats.errors[1].error = "Erreur obtention token Azure AD"
    /\ stats.errors[2].error # stats.errors[1].error
    /\ stats.totalRequests = 2
    /\ \A c \in Calls : calls[c].kind = "web" /\ calls[c].pc = "done" /\ calls[c].threw

\* the requests invocation c has issued
RequestsOf(call) == <<call.tokenReqs, call.backendReqs>>

\* C16: one searchWeb invocation issues at most one token exchange and at most
\* one search request; when either fails (rejected or failed in transport, or
\* answered non-2xx) the invocation throws at its next step without issuing
\* another request, and after a failed token exchange no search request is sent.
C16_NoRetry ==
    [][\A c \in Calls :
          /\ calls'[c].kind = "web" =>
                /\ calls'[c].tokenReqs <= 1
                /\ calls'[c].backendReqs <= 1
          /\ /\ calls[c].kind = "web"
             /\ calls[c].msg.kind \in {"rejected", "non2xx"}
             /\ calls'[c] # calls[c]
             => /\ calls'[c].pc = "done"
                /\ calls'[c].threw
                /\ RequestsOf(calls'[c]) = RequestsOf(calls[c])
          /\ /\ calls[c].kind = "web"
             /\ calls[c].pc \in {"tokenWait", "tokenBody", "searchWait", "bodyWait"}
             /\ calls'[c].threw
             => /\ calls'[c].pc = "done"
                /\ RequestsOf(calls'[c]) = RequestsOf(calls[c])
                /\ calls[c].pc \in {"tokenWait", "tokenBody"} => calls'[c].backendReqs = 0
      ]_vars

\* an invocation exchanged a token, sent its search request, was answered
\* non-2xx and threw; another one threw on its token exchange
C16_Witness ==
    \E c, d \in Calls :
        /\ calls[c].kind = "web" /\ calls[c].pc = "done" /\ calls[c].threw
        /\ calls[c].tokenReqs = 1 /\ calls[c].backendReqs = 1
        /\ calls[c].result.error = "Erreur de recherche SearXNG"
        /\ calls[d].kind = "web" /\ calls[d].pc = "done" /\ calls[d].threw
        /\ calls[d].tokenReqs = 1 /\ calls[d].backendReqs = 0

\* ---------------------------------------------------------------------------
\* The 30-second timer of the search request
\* ---------------------------------------------------------------------------

\* The invocation has issued its backend request and the backend has not yet
\* delivered the complete response: the status is awaited (line 157) or the
\* body is (lines 172, 177).
PendingOnBackend(call) ==
    call.kind \in {"web", "sci"} /\ call.pc \in {"searchWait", "bodyWait"}

\* C17 as stated: as long as the backend has not delivered the complete
\* response (status and body) to an invocation that has issued its backend
\* request, the 30-second timer of that request is armed, so that the request is
\* aborted when the timer fires and the invocation cannot stay pending on the
\* backend; an invocation that has thrown the timeout error is one whose timer
\* has fired.
C17_AsStated ==
    \A c \in Calls :
        /\ PendingOnBackend(calls[c]) => calls[c].timer = "armed"
        /\ ( /\ calls[c].pc = "done" /\ calls[c].threw
             /\ calls[c].result.shape = "error"
             /\ calls[c].result.error = TimeoutError ) => calls[c].timer = "fired"

\* ---------------------------------------------------------------------------
\* validateConfig
\* ---------------------------------------------------------------------------

\* const requiredVars, in the order of the array
requiredVars == <<"SEARXNG_URL", "CLIENT_ID", "CLIENT_SECRET", "TENANT_ID", "TOKEN_URL">>

\* What process.env holds for one variable: nothing, the empty string, or a
\* non-empty string.
Unset == [defined |-> FALSE, value |-> ""]
EnvValues == {Unset, [defined |-> TRUE, value |-> ""],
              [defined |-> TRUE, value |-> "url"], [defined |-> TRUE, value |-> "secret"]}
Environments == [RequiredSettings -> EnvValues]

\* !process.env[v]
isUnsetOnly(entry) == ~entry.defined
isFalsy(entry) == ~entry.defined \/ entry.value = ""

\* The variables the constructor of SearchService finds set (lines 6-10, 25)
settingsOf(env) == {v \in RequiredSettings : ~isFalsy(env[v])}

\* validateConfig(): the thrown message is the prefix followed by the missing
\* names joined by ', ', kept here as the sequence of the joined names.
validateConfig(env) ==
    LET missing == SelectSeq(requiredVars, LAMBDA v : isFalsy(env[v]))
    IN IF Len(missing) > 0
       THEN [threw |-> TRUE,
             message |-> [prefix |-> "Variables d'environnement manquantes: ",
                          joined |-> missing],
             config |-> [v \in {} |-> ""]]
       ELSE [threw |-> FALSE,
             message |-> [prefix |-> "", joined |-> <<>>],
             config |-> [searxngUrl |-> env["SEARXNG_URL"].value,
                         clientId |-> env["CLIENT_ID"].value,
                         clientSecret |-> env["CLIENT_SECRET"].value,
                         tenantId |-> env["TENANT_ID"].value,
                         tokenUrl |-> env["TOKEN_URL"].value]]

\* The service has been constructed in the environment validateConfig reads.
InitConfig ==
    /\ InitService
    /\ horizon = 0
    /\ scoring = NoScoring
    /\ handler = NoRequest
    /\ \E env \in Environments :
          /\ settings = settingsOf(env)
          /\ evaluation = [phase |-> "called", fn |-> "validateConfig", env |-> env,
                           outcome |-> [threw |-> FALSE,
                                        message |-> [prefix |-> "", joined |-> <<>>],
                                        config |-> [v \in {} |-> ""]]]

\* validateConfig returns or throws
ValidateConfig ==
    /\ evaluation.phase = "called"
    /\ evaluation.fn = "validateConfig"
    /\ evaluation' = [evaluation EXCEPT !.phase = "returned",
                                        !.outcome = validateConfig(evaluation.env)]
    /\ UNCHANGED <<svcVars, scoring, handler>>

NextConfig == ValidateConfig

SpecConfig == InitConfig /\ [][NextConfig]_vars

\* The required variables that are absent or empty in env
MissingOrEmpty(env) ==
    {v \in RequiredSettings : env[v] = Unset \/ env[v].value = ""}

\* C18: validateConfig throws exactly when at least one of the five required
\* variables is missing or empty, and its message then names every missing
\* variable; when all five are set it returns an object holding exactly the five
\* values; it throws exactly when the service constructed in the same
\* environment has recorded its configuration error.
C18_ValidateConfig ==
    (evaluation.phase = "returned" /\ evaluation.fn = "validateConfig") =>
        LET env == evaluation.env
            outcome == evaluation.outcome
        IN /\ outcome.threw <=> MissingOrEmpty(env) # {}
           /\ outcome.threw =>
                 {outcome.message.joined[i] : i \in 1..Len(outcome.message.joined)}
                    = MissingOrEmpty(env)
           /\ ~outcome.threw =>
                 /\ DOMAIN outcome.config =
                       {"searxngUrl", "clientId", "clientSecret", "tenantId", "tokenUrl"}
                 /\ outcome.config.searxngUrl = env["SEARXNG_URL"].value
                 /\ outcome.config.clientId = env["CLIENT_ID"].value
                 /\ outcome.config.clientSecret = env["CLIENT_SECRET"].value
                 /\ outcome.config.tenantId = env["TENANT_ID"].value
                 /\ outcome.config.tokenUrl = env["TOKEN_URL"].value
           /\ outcome.threw <=> configurationError

\* validateConfig has thrown for an environment in which one variable is absent
\* and another one is set to the empty string, and has named both.
C18_Witness ==
    /\ evaluation.phase = "returned"
    /\ evaluation.fn = "validateConfig"
    /\ evaluation.env["CLIENT_ID"] = Unset
    /\ evaluation.env["TOKEN_URL"] = [defined |-> TRUE, value |-> ""]
    /\ evaluation.outcome.threw
    /\ evaluation.outcome.message.joined = <<"CLIENT_ID", "TOKEN_URL">>
    /\ configurationError

\* ---------------------------------------------------------------------------
\* generateRecommendations
\* ---------------------------------------------------------------------------

MaxLoggedErrors == 3

\* IF c THEN <<item>> ELSE <<>>: one conditional push
pushIf(c, item) == IF c THEN <<item>> ELSE <<>>

\* the condition of the last push (line 142)
connectedOnly(isConnected, authTest) == isConnected
operational(isConnected, authTest) == isConnected /\ authTest.success

\* generateRecommendations(isConnected, authTest, stats, testDetails); a null
\* testDetails is "", an interpolated message keeps its text and its argument.
generateRecommendations(isConnected, authTest, serviceStats, testDetails) ==
    pushIf(~isConnected,
           [type |-> "error", priority |-> "high",
            message |-> [text |-> "Service SearXNG non accessible - Verifiez la configuration. Detail : ",
                         detail |-> IF testDetails = "" THEN "N/A" ELSE testDetails,
                         count |-> 0]])
    \o pushIf(~authTest.success,
           [type |-> "auth_error", priority |-> "high",
            message |-> [text |-> "Authentification Azure AD echouee - Verifiez les credentials",
                         detail |-> "", count |-> 0]])
    \o pushIf(~serviceStats.configured,
           [type |-> "configuration", priority |-> "high",
            message |-> [text |-> "Configuration incomplete - Variables d'environnement manquantes",
                         detail |-> "", count |-> 0]])
    \o pushIf(Len(serviceStats.errors) > 0,
           [type |-> "errors", priority |-> "medium",
            message |-> [text |-> " erreur(s) recente(s) detectee(s)",
                         detail |-> "", count |-> Len(serviceStats.errors)]])
    \o pushIf(operational(isConnected, authTest),
           [type |-> "success", priority |-> "info",
            message |-> [text |-> "Service operationnel - Pret pour la production",
                         detail |-> "", count |-> 0]])

\* The error logs handed to the function: up to MaxLoggedErrors entries
ErrorLogs ==
    {[i \in 1..n |-> [error |-> "fetch failed"]] : n \in 0..MaxLoggedErrors}

InitRecommend ==
    /\ svcIdle
    /\ scoring = NoScoring
    /\ handler = NoRequest
    /\ \E isConnected \in BOOLEAN, success \in BOOLEAN, configured \in BOOLEAN,
          errors \in ErrorLogs,
          testDetails \in {"", "Test de recherche reussi", "Test de recherche echoue"} :
          evaluation = [phase |-> "called", fn |-> "generateRecommendations",
                        isConnected |-> isConnected, authTest |-> [success |-> success],
                        stats |-> [configured |-> configured, errors |-> errors],
                        testDetails |-> testDetails, recommendations |-> <<>>]

\* the function returns
GenerateRecommendations ==
    /\ evaluation.phase = "called"
    /\ evaluation.fn = "generateRecommendations"
    /\ evaluation' = [evaluation EXCEPT
          !.phase = "returned",
          !.recommendations = generateRecommendations(evaluation.isConnected,
                                  evaluation.authTest, evaluation.stats,
                                  evaluation.testDetails)]
    /\ UNCHANGED <<svcVars, scoring, handler>>

NextRecommend == GenerateRecommendations

SpecRecommend == InitRecommend /\ [][NextRecommend]_vars

\* The returned list has an item of this type
Recommends(type) ==
    \E i \in 1..Len(evaluation.recommendations) : evaluation.recommendations[i].type = type

\* C19: the list returned by generateRecommendations has an 'error' item exactly
\* when not connected, an 'auth_error' item exactly when authentication failed,
\* a 'configuration' item exactly when not configured, an 'errors' item exactly
\* when the error log is non-empty and a 'success' item exactly when connected
\* and authenticated; a 'success' item is the last element of the list.
C19_Recommendations ==
    (evaluation.phase = "returned" /\ evaluation.fn = "generateRecommendations") =>
        LET recs == evaluation.recommendations
        IN /\ Recommends("error") <=> ~evaluation.isConnected
           /\ Recommends("auth_error") <=> ~evaluation.authTest.success
           /\ Recommends("configuration") <=> ~evaluation.stats.configured
           /\ Recommends("errors") <=> evaluation.stats.errors # <<>>
           /\ Recommends("success") <=>
                 (evaluation.isConnected /\ evaluation.authTest.success)
           /\ \A i \in 1..Len(recs) : recs[i].type = "success" => i = Len(recs)

\* Connected and authenticated, with an incomplete configuration and a
\* non-empty error log: the success item comes last, after two other items.
C19_Witness ==
    /\ evaluation.phase = "returned"
    /\ evaluation.fn = "generateRecommendations"
    /\ evaluation.isConnected /\ evaluation.authTest.success
    /\ ~evaluation.stats.configured
    /\ Len(evaluation.stats.errors) = 2
    /\ Len(evaluation.recommendations) = 3
    /\ evaluation.recommendations[1].type = "configuration"
    /\ evaluation.recommendations[2].type = "errors"
    /\ evaluation.recommendations[3].type = "success"

\* ---------------------------------------------------------------------------
\* Lazy eviction of expired cache entries
\* ---------------------------------------------------------------------------

\* The cache lookup of the searchWeb invocation in slot c (lines 124-127) has
\* found an entry as old as the TTL or older.
FoundExpired(c) ==
    /\ calls[c].kind \in {"web", "sci"}
    /\ calls[c].lookupAt # NoTime
    /\ calls[c].lookupEntry # NoTime
    /\ calls[c].lookupAt - calls[c].lookupEntry >= CacheTimeout

\* C20 as stated: once a searchWeb lookup has found an expired entry, the entry
\* it found is no longer in the cache map, whether the refetch is still under
\* way, has succeeded (the key then holds the newer entry) or has failed.
C20_AsStated ==
    \A c \in Calls :
        FoundExpired(c) =>
            \/ calls[c].cacheKey \notin DOMAIN cache
            \/ cache[calls[c].cacheKey].timestamp # calls[c].lookupEntry

\* ---------------------------------------------------------------------------
\* The error log entries of a throwing searchWeb
\* ---------------------------------------------------------------------------

\* The entries of the error log that carry the query and the focus mode of the
\* invocation in slot c
EntriesOf(c) ==
    {i \in 1..Len(stats.errors) :
        /\ stats.errors[i].query = calls[c].query
        /\ stats.errors[i].focusMode = calls[c].focusMode}

\* C21 as stated: a searchWeb invocation that has thrown has appended exactly
\* one entry to the error log, and the log holds an entry with its query and
\* its focus mode.
C21_AsStated ==
    \A c \in Calls :
        (calls[c].kind = "web" /\ calls[c].pc = "done" /\ calls[c].threw) =>
            /\ calls[c].errorsPushed = 1
            /\ EntriesOf(c) # {}

\* ---------------------------------------------------------------------------
\* What a throwing searchWeb leaves alone
\* ---------------------------------------------------------------------------

\* This step is a step of the searchWeb invocation in slot c and it does not
\* make the invocation return a result: every step of an invocation that ends
\* by throwing is such a step.
StepWithoutResult(c) ==
    /\ calls'[c] # calls[c]
    /\ calls'[c].kind = "web"
    /\ ~(calls'[c].pc = "done" /\ ~calls'[c].threw)

\* C22: no step of a searchWeb invocation other than the one that makes it
\* return a result changes the result cache (keys, payloads, timestamps),
\* successfulRequests or cachedRequests, so an invocation that throws leaves
\* them as they were; such a step changes at most totalRequests, the error log
\* and the token cache.
C22_ThrowingLeavesCache ==
    [][\A c \in Calls :
          StepWithoutResult(c) =>
             /\ cache' = cache
             /\ stats'.successfulRequests = stats.successfulRequests
             /\ stats'.cachedRequests = stats.cachedRequests
             /\ settings' = settings
             /\ configurationError' = configurationError]_vars

\* An invocation has thrown on an unparseable body after having obtained its
\* token, while the cache holds the entry of an earlier invocation.
C22_Witness ==
    \E c \in Calls :
        /\ calls[c].kind = "web" /\ calls[c].pc = "done" /\ calls[c].threw
        /\ calls[c].result.error = "Reponse non JSON recue du serveur SearXNG"
        /\ calls[c].tokenReqs = 1
        /\ accessToken # NoToken
        /\ DOMAIN cache # {}
        /\ stats.successfulRequests = 1
        /\ stats.totalRequests = 2

\* ---------------------------------------------------------------------------
\* The request counters
\* ---------------------------------------------------------------------------

\* A searchWeb call is in flight in slot c: entered and not yet returned or thrown
WebInFlight(c) ==
    /\ calls[c].kind \in {"web", "sci"}
    /\ calls[c].pc \in {"tokenWait", "tokenBody", "searchWait", "bodyWait"}

RECURSIVE SumOver(_, _)
SumOver(slots, field) ==
    IF slots = {} THEN 0
    ELSE LET c == CHOOSE x \in slots : TRUE
         IN calls[c][field] + SumOver(slots \ {c}, field)

\* C23: totalRequests is never less than successfulRequests + cachedRequests,
\* and whenever no searchWeb call is in flight it equals successfulRequests +
\* cachedRequests + the number of searchWeb calls that threw + the number of
\* calls rejected for missing configuration.
C23_CountersBalance ==
    /\ stats.totalRequests >= stats.successfulRequests + stats.cachedRequests
    /\ (\A c \in Calls : ~WebInFlight(c)) =>
          stats.totalRequests =
             stats.successfulRequests + stats.cachedRequests
             + SumOver(Calls, "thrown") + SumOver(Calls, "rejected")

\* No call is in flight after one invocation was answered by the backend and
\* another one threw.
C23_Witness ==
    /\ \A c \in Calls : ~WebInFlight(c)
    /\ stats.totalRequests = 2
    /\ stats.successfulRequests = 1
    /\ stats.cachedRequests = 0
    /\ SumOver(Calls, "thrown") = 1
    /\ SumOver(Calls, "rejected") = 0

\* ---------------------------------------------------------------------------
\* searchCompanyInfo
\* ---------------------------------------------------------------------------

\* The searchCompanyInfo invocation in slot c of a configured service has returned.
CompanyInfoDone(c) ==
    /\ calls[c].kind = "sci"
    /\ calls[c].pc = "done"
    /\ ~configurationError

\* The sub-query searchCompanyInfo issued last has thrown: searchWeb logs the
\* error of an invocation that throws, and of no other.
LastSubQueryThrew(c) == calls[c].errorsPushed > 0

\* C24: searchCompanyInfo never throws and issues its sub-queries one after
\* another (the k-th searchWeb is entered only as the k-th step of the loop); it
\* returns success = true exactly when none of its searchWeb calls threw, and
\* then all three were issued, each contributes its results, successfulQueries
\* is the number of contributions and totalQueries is 3; when a sub-query
\* throws, it is the last one issued and the returned value is success = false
\* with an empty results list and without the earlier contributions.
C24_CompanyInfo ==
    \A c \in Calls :
        /\ (calls[c].kind = "sci" /\ ~configurationError) =>
              /\ calls[c].webCalls = calls[c].idx
              /\ calls[c].webCalls \in 1..3
              /\ Len(calls[c].collected) <= calls[c].webCalls
        /\ CompanyInfoDone(c) =>
              LET result == calls[c].result
              IN /\ ~calls[c].threw
                 /\ result.success <=> ~LastSubQueryThrew(c)
                 /\ result.success =>
                       /\ calls[c].webCalls = 3
                       /\ result.totalQueries = 3
                       /\ result.successfulQueries = Len(result.searchResults)
                       /\ Len(result.searchResults) = 3
                       /\ \A i \in 1..3 :
                             result.searchResults[i].query =
                                searchQueries(calls[c].name,
                                              detectCompanyGeography(calls[c].name))[i].query
                 /\ ~result.success =>
                       /\ result.results = <<>>
                       /\ "searchResults" \notin DOMAIN result

\* The second sub-query has thrown after the first one had contributed: the
\* third one was not issued and the first contribution is not returned.
C24_Witness ==
    \E c \in Calls :
        /\ CompanyInfoDone(c)
        /\ calls[c].webCalls = 2
        /\ Len(calls[c].collected) = 1
        /\ calls[c].result.success = FALSE
        /\ calls[c].result.results = <<>>

-----------------------------------------------------------------------------
(* analyzeMetrics: the stages applied to one company (lines 66-84).  An     *)
(* absent number is 0 and an absent string is "" (both falsy); confidence   *)
(* is counted in hundredths.                                                *)

\* new Date().getFullYear()
CurrentYear == 2026

\* parseInt of company.revenue without its currency sign and its 'M': the
\* revenue in millions (the sign is left out of the strings here)
parseRevenue(revenue) ==
    CASE revenue = "1M" -> 1
      [] revenue = "3M" -> 3
      [] revenue = "2.5M" -> 2
      [] revenue = "100M" -> 100
      [] OTHER -> 0

\* Math.round of the quotient of two positive integers
RoundDiv(a, b) == (2 * a + b) \div (2 * b)

ageOf(company) == CurrentYear - company.founding_year

calculateStabilityScore(company) ==
    MathMin(50
            + (IF company.founding_year # 0 /\ ageOf(company) > 10 THEN 20 ELSE 0)
            + (IF company.founding_year # 0 /\ ageOf(company) > 25 THEN 10 ELSE 0)
            + (IF company.employees # 0 /\ company.employees > 500 THEN 15 ELSE 0)
            + (IF company.isPublic THEN 10 ELSE 0)
            + (IF company.confidence > 80 THEN 5 ELSE 0),
            100)

\* revenuePerEmployee and its class (lines 277-297)
revenuePerEmployee(company) ==
    IF company.revenue # "" /\ company.employees > 0
    THEN RoundDiv(parseRevenue(company.revenue) * 1000000, company.employees)
    ELSE 0
employeeProductivity(company) ==
    IF ~(company.revenue # "" /\ company.employees > 0) THEN "unknown"
    ELSE IF revenuePerEmployee(company) > 300000 THEN "very_high"
    ELSE IF revenuePerEmployee(company) > 150000 THEN "high"
    ELSE IF revenuePerEmployee(company) > 80000 THEN "medium"
    ELSE "low"

\* lines 299-309
growthPotential(company) ==
    IF company.founding_year = 0 THEN 0
    ELSE IF ageOf(company) < 10 /\ company.employees > 100 THEN 85
    ELSE IF ageOf(company) < 20 /\ company.employees > 500 THEN 70
    ELSE 50

\* calculateAdvancedFinancialMetrics(company); overallHealthScore in tenths
calculateAdvancedFinancialMetrics(company) ==
    LET productivity == employeeProductivity(company)
        base == CASE productivity = "very_high" -> 30
                  [] productivity = "high" -> 25
                  [] productivity = "medium" -> 15
                  [] productivity = "low" -> 5
                  [] OTHER -> 0
    IN [revenuePerEmployee |-> revenuePerEmployee(company),
        employeeProductivity |-> productivity,
        growthPotential |-> growthPotential(company),
        stabilityScore |-> calculateStabilityScore(company),
        overallHealthScore |->
            MathMin(base * 10 + growthPotential(company) * 3
                    + calculateStabilityScore(company) * 4, 1000)]

\* const sectorRisks; 0 for a sector outside the table
sectorRisks(sector) ==
    CASE sector = "Technology" -> 15
      [] sector = "Finance" -> 25
      [] sector = "Healthcare" -> 20
      [] sector = "Energy" -> 30
      [] sector = "Retail" -> 35
      [] OTHER -> 0

\* let riskScore, after the five allocations (lines 328-375)
riskScoreOf(company, metrics) ==
    (IF company.employees # 0
     THEN IF company.employees < 10 THEN 30
          ELSE IF company.employees < 50 THEN 20 ELSE 0
     ELSE 0)
    + (IF metrics.employeeProductivity = "low" THEN 25 ELSE 0)
    + (IF company.founding_year # 0
       THEN IF ageOf(company) < 3 THEN 35
            ELSE IF ageOf(company) > 50 THEN 15 ELSE 0
       ELSE 0)
    + (IF company.confidence < 60 THEN 20 ELSE 0)
    + (IF company.sector # "" THEN sectorRisks(company.sector) ELSE 0)

\* lines 377-384: the level of a raw risk score
riskLevelStrictlyAbove(riskScore) ==
    IF riskScore > 70 THEN "high" ELSE IF riskScore > 40 THEN "medium" ELSE "low"
riskLevelOf(riskScore) ==
    IF riskScore >= 70 THEN "high" ELSE IF riskScore >= 40 THEN "medium" ELSE "low"

\* assessComprehensiveRiskProfile(company, metrics)
assessComprehensiveRiskProfile(company, metrics) ==
    LET riskScore == riskScoreOf(company, metrics)
    IN [level |-> riskLevelOf(riskScore),
        score |-> MathMin(riskScore, 100),
        assessment |->
            [operational |-> IF riskScore > 50 THEN "high" ELSE "medium",
             financial |-> IF metrics.employeeProductivity = "low" THEN "medium" ELSE "low",
             market |-> IF company.sector # "" THEN "medium" ELSE "high",
             data |-> IF company.confidence > 70 THEN "low" ELSE "medium"]]

\* The risk level estimateDetailedValuation reads: company.riskProfile.level,
\* "" when the company it is given has no riskProfile.
riskLevelRead(company) ==
    IF "riskProfile" \in DOMAIN company THEN company.riskProfile.level ELSE ""

\* estimateDetailedValuation(company, metrics, referenceCompany): the
\* adjustments, and the adjustment factor in millionths (lines 452-480)
estimateDetailedValuation(company, metrics, referenceCompany) ==
    LET productivity ==
            CASE metrics.employeeProductivity = "very_high" ->
                    [factor |-> 130, label |-> <<"Prime productivite exceptionnelle (+30%)">>]
              [] metrics.employeeProductivity = "high" ->
                    [factor |-> 115, label |-> <<"Prime productivite elevee (+15%)">>]
              [] metrics.employeeProductivity = "low" ->
                    [factor |-> 85, label |-> <<"Decote productivite faible (-15%)">>]
              [] OTHER -> [factor |-> 100, label |-> <<>>]
        growth ==
            IF metrics.growthPotential > 80
            THEN [factor |-> 120, label |-> <<"Prime potentiel de croissance (+20%)">>]
            ELSE IF metrics.growthPotential < 40
            THEN [factor |-> 90, label |-> <<"Decote croissance limitee (-10%)">>]
            ELSE [factor |-> 100, label |-> <<>>]
        risk ==
            IF riskLevelRead(company) = "high"
            THEN [factor |-> 80, label |-> <<"Decote risque eleve (-20%)">>]
            ELSE IF riskLevelRead(company) = "low"
            THEN [factor |-> 110, label |-> <<"Prime risque faible (+10%)">>]
            ELSE [factor |-> 100, label |-> <<>>]
    IN [method |-> "multi_factor_analysis",
        confidence |-> IF company.confidence > 70 THEN "medium" ELSE "low",
        adjustments |-> productivity.label \o growth.label \o risk.label,
        adjustmentFactor |-> productivity.factor * growth.factor * risk.factor]

\* const productivityScores
productivityScores(productivity) ==
    CASE productivity = "very_high" -> 95
      [] productivity = "high" -> 80
      [] productivity = "medium" -> 60
      [] productivity = "low" -> 30
      [] OTHER -> 50

\* calculateBenchmarkScores(company, referenceCompany); size in hundredths
calculateBenchmarkScores(company, referenceCompany) ==
    LET has == "financialMetrics" \in DOMAIN company
        size == IF company.employees # 0 /\ referenceCompany.employees # 0
                THEN MathMin(MathMax((company.employees * 5000)
                                        \div referenceCompany.employees, 1000), 10000)
                ELSE 5000
        productivity == IF has /\ company.financialMetrics.employeeProductivity # ""
                        THEN productivityScores(company.financialMetrics.employeeProductivity)
                        ELSE 50
        growth == IF has /\ company.financialMetrics.growthPotential # 0
                  THEN company.financialMetrics.growthPotential ELSE 50
        stability == IF has /\ company.financialMetrics.stabilityScore # 0
                     THEN company.financialMetrics.stabilityScore ELSE 50
    IN [size |-> size, productivity |-> productivity, growth |-> growth,
        stability |-> stability,
        overall |-> RoundDiv(size * 20 + productivity * 3000 + growth * 2500
                             + stability * 2500, 10000)]

\* The profiles the stages are applied to
AnalysedCompanies ==
    [name : {"Acme"},
     employees : {0, 5, 30, 600},
     revenue : {"", "1M", "3M", "100M"},
     founding_year : {0, 2025, 2020, 2010, 1960},
     confidence : {50, 60, 90},
     sector : {"", "Technology", "Retail", "Consulting"},
     isPublic : BOOLEAN]

ReferenceCompanies == [employees : {0, 30, 600}]

NoStage == [absent |-> TRUE]

InitAnalysis ==
    /\ svcIdle
    /\ scoring = NoScoring
    /\ handler = NoRequest
    /\ \E company \in AnalysedCompanies, mainProfile \in ReferenceCompanies :
          evaluation = [phase |-> "called", fn |-> "analyzeMetrics", company |-> company,
                        mainProfile |-> mainProfile, metrics |-> NoStage,
                        riskProfile |-> NoStage, valuation |-> NoStage,
                        benchmarkScores |-> NoStage]

\* line 69
CalculateMetrics ==
    /\ evaluation.phase = "called"
    /\ evaluation.fn = "analyzeMetrics"
    /\ evaluation' = [evaluation EXCEPT
          !.phase = "metrics",
          !.metrics = calculateAdvancedFinancialMetrics(evaluation.company)]
    /\ UNCHANGED <<svcVars, scoring, handler>>

\* line 70
AssessRisk ==
    /\ evaluation.phase = "metrics"
    /\ evaluation' = [evaluation EXCEPT
          !.phase = "risk",
          !.riskProfile = assessComprehensiveRiskProfile(evaluation.company,
                                                         evaluation.metrics)]
    /\ UNCHANGED <<svcVars, scoring, handler>>

\* line 71: the valuation is estimated from `company`, the profile as it
\* entered the callback
EstimateValuation ==
    /\ evaluation.phase = "risk"
    /\ evaluation' = [evaluation EXCEPT
          !.phase = "valuation",
          !.valuation = estimateDetailedValuation(evaluation.company, evaluation.metrics,
                                                  evaluation.mainProfile)]
    /\ UNCHANGED <<svcVars, scoring, handler>>

\* lines 74-83: the analysed company is assembled; benchmarkScores are
\* calculated from `company`, the profile as it entered the callback
CalculateBenchmark ==
    /\ evaluation.phase = "valuation"
    /\ evaluation' = [evaluation EXCEPT
          !.phase = "returned",
          !.benchmarkScores = calculateBenchmarkScores(evaluation.company,
                                                       evaluation.mainProfile)]
    /\ UNCHANGED <<svcVars, scoring, handler>>

NextAnalysis == CalculateMetrics \/ AssessRisk \/ EstimateValuation \/ CalculateBenchmark

SpecAnalysis == InitAnalysis /\ [][NextAnalysis]_vars

\* The callback of analyzeMetrics has returned the analysed company
Analysed == evaluation.phase = "returned" /\ evaluation.fn = "analyzeMetrics"

\* C25 as stated: for an analysed company the valuation carries the risk
\* adjustment of the company's computed risk level (the discount for high, the
\* premium for low, none for medium), and the productivity, growth and
\* stability benchmark scores are those of the company's computed financial
\* metrics.
C25_AsStated ==
    Analysed =>
        LET level == evaluation.riskProfile.level
            adjustments == evaluation.valuation.adjustments
            has(label) == \E i \in 1..Len(adjustments) : adjustments[i] = label
        IN /\ has("Decote risque eleve (-20%)") <=> level = "high"
           /\ has("Prime risque faible (+10%)") <=> level = "low"
           /\ evaluation.benchmarkScores.productivity =
                 productivityScores(evaluation.metrics.employeeProductivity)
           /\ evaluation.metrics.growthPotential # 0 =>
                 evaluation.benchmarkScores.growth = evaluation.metrics.growthPotential
           /\ evaluation.benchmarkScores.stability = evaluation.metrics.stabilityScore

\* The risk of the analysed company has been assessed
RiskAssessed ==
    evaluation.fn = "analyzeMetrics" /\ evaluation.phase \in {"risk", "valuation", "returned"}

\* The raw risk as the sum of the triggered allocations: team size, low
\* productivity, company age, data confidence, sector
StatedRawRisk(company, metrics) ==
    LET age == CurrentYear - company.founding_year
        teamSize == IF company.employees = 0 THEN 0
                    ELSE IF company.employees < 10 THEN 30
                    ELSE IF company.employees < 50 THEN 20 ELSE 0
        productivity == IF metrics.employeeProductivity = "low" THEN 25 ELSE 0
        companyAge == IF company.founding_year = 0 THEN 0
                      ELSE IF age < 3 THEN 35 ELSE IF age > 50 THEN 15 ELSE 0
        confidence == IF company.confidence < 60 THEN 20 ELSE 0
        sector == CASE company.sector = "Technology" -> 15
                    [] company.sector = "Finance" -> 25
                    [] company.sector = "Healthcare" -> 20
                    [] company.sector = "Energy" -> 30
                    [] company.sector = "Retail" -> 35
                    [] OTHER -> 0
    IN teamSize + productivity + companyAge + confidence + sector

\* C27: assessComprehensiveRiskProfile reports score = min(raw, 100), within
\* 0..100, where raw is the sum of the triggered allocations, and level = high
\* iff raw >= 70, medium iff 40 <= raw < 70, low iff raw < 40; the level is the
\* one the same thresholds give for the reported score.
C27_RiskProfile ==
    RiskAssessed =>
        LET raw == StatedRawRisk(evaluation.company, evaluation.metrics)
            score == evaluation.riskProfile.score
            level == evaluation.riskProfile.level
        IN /\ score = (IF raw < 100 THEN raw ELSE 100)
           /\ score \in 0..100
           /\ level = "high" <=> raw >= 70
           /\ level = "medium" <=> (40 <= raw /\ raw < 70)
           /\ level = "low" <=> raw < 40
           /\ level = "high" <=> score >= 70
           /\ level = "medium" <=> (40 <= score /\ score < 70)
           /\ level = "low" <=> score < 40

\* A small, unproductive, very young retail company with little data: the raw
\* risk exceeds 100 and the reported score is 100.
C27_Witness ==
    /\ RiskAssessed
    /\ StatedRawRisk(evaluation.company, evaluation.metrics) = 135
    /\ evaluation.riskProfile.score = 100
    /\ evaluation.riskProfile.level = "high"

-----------------------------------------------------------------------------
(* Sector extraction: the three extractors that build a profile.            *)

\* searchCompany: extractSector, the table in its iteration order
searchCompanySectorPatterns ==
    << [sector |-> "Technology",
        keywords |-> {"technology", "tech", "it services", "software", "digital",
                      "consulting", "transformation"}],
       [sector |-> "Finance",
        keywords |-> {"finance", "financial", "bank", "investment", "insurance"}],
       [sector |-> "Healthcare",
        keywords |-> {"healthcare", "health", "medical", "pharmaceutical", "pharma"}],
       [sector |-> "Manufacturing",
        keywords |-> {"manufacturing", "production", "industrial", "factory"}],
       [sector |-> "Retail", keywords |-> {"retail", "commerce", "consumer", "shopping"}],
       [sector |-> "Energy", keywords |-> {"energy", "oil", "gas", "renewable", "utilities"}],
       [sector |-> "Consulting",
        keywords |-> {"consulting", "advisory", "professional services"}] >>

\* getCompanyDetails: extractSectorAdvanced, the table in its iteration order
advancedSectorPatterns ==
    << [sector |-> "Technology",
        keywords |-> {"technology", "tech", "it services", "software", "digital",
                      "consulting", "transformation", "innovation"}],
       [sector |-> "Finance",
        keywords |-> {"finance", "financial", "bank", "investment", "insurance",
                      "asset management"}],
       [sector |-> "Healthcare",
        keywords |-> {"healthcare", "health", "medical", "pharmaceutical", "pharma",
                      "biotechnology"}],
       [sector |-> "Manufacturing",
        keywords |-> {"manufacturing", "production", "industrial", "factory", "automotive"}],
       [sector |-> "Retail",
        keywords |-> {"retail", "commerce", "consumer", "shopping", "e-commerce"}],
       [sector |-> "Energy",
        keywords |-> {"energy", "oil", "gas", "renewable", "utilities", "power"}],
       [sector |-> "Consulting",
        keywords |-> {"consulting", "advisory", "professional services", "strategy"}],
       [sector |-> "Telecommunications",
        keywords |-> {"telecom", "telecommunications", "mobile", "internet",
                      "communications"}] >>

\* keywords.filter(keyword => content.includes(keyword)).length
matchesOf(entry, content) ==
    Cardinality({k \in entry.keywords : contentIncludes(content, k)})

\* searchCompany extractSector: the first sector with two matches or more
extractSectorOfSearch(content) ==
    LET found == {i \in 1..Len(searchCompanySectorPatterns) :
                     matchesOf(searchCompanySectorPatterns[i], content) >= 2}
    IN IF found = {} THEN "Technology"
       ELSE searchCompanySectorPatterns[CHOOSE i \in found : \A j \in found : i <= j].sector

\* extractSectorAdvanced: the loop keeps the first sector of the highest count
RECURSIVE bestMatchFrom(_, _, _, _)
bestMatchFrom(i, content, bestMatch, maxScore) ==
    IF i > Len(advancedSectorPatterns) THEN bestMatch
    ELSE LET matches == matchesOf(advancedSectorPatterns[i], content)
         IN IF matches > maxScore
            THEN bestMatchFrom(i + 1, content, advancedSectorPatterns[i].sector, matches)
            ELSE bestMatchFrom(i + 1, content, bestMatch, maxScore)

extractSectorAdvanced(content) ==
    LET bestMatch == bestMatchFrom(1, content, "", 0)
    IN IF bestMatch = "" THEN "Technology" ELSE bestMatch

\* The table of an extractor, and the extractor applied to a content
tableOf(fn) ==
    CASE fn = "searchCompany.extractSector" -> searchCompanySectorPatterns
      [] fn = "getCompanyDetails.extractSectorAdvanced" -> advancedSectorPatterns
      [] OTHER -> sectorPatterns

sectorBy(fn, content) ==
    CASE fn = "searchCompany.extractSector" -> extractSectorOfSearch(content)
      [] fn = "getCompanyDetails.extractSectorAdvanced" -> extractSectorAdvanced(content)
      [] OTHER -> extractSector(content)

SectorExtractors ==
    {"searchCompany.extractSector", "getCompanyDetails.extractSectorAdvanced",
     "findComparables.extractSector"}

\* The words of the lowercased contents
SectorWords == {"software", "digital", "bank", "investment", "finance", "retail", "acme"}

InitSector ==
    /\ svcIdle
    /\ scoring = NoScoring
    /\ handler = NoRequest
    /\ \E fn \in SectorExtractors, content \in SUBSET SectorWords :
          evaluation = [phase |-> "called", fn |-> fn, content |-> content, sector |-> ""]

\* the extractor returns
ExtractSector ==
    /\ evaluation.phase = "called"
    /\ evaluation.fn \in SectorExtractors
    /\ evaluation' = [evaluation EXCEPT
                         !.phase = "returned",
                         !.sector = sectorBy(evaluation.fn, evaluation.content)]
    /\ UNCHANGED <<svcVars, scoring, handler>>

NextSector == ExtractSector

SpecSector == InitSector /\ [][NextSector]_vars

\* The sector of the highest hit count, the earliest declared among those tied
\* for it, "Technology" when every count is zero
StatedSector(table, content) ==
    LET hits(i) == matchesOf(table[i], content)
        top == {i \in 1..Len(table) : \A j \in 1..Len(table) : hits(i) >= hits(j)}
        first == CHOOSE i \in top : \A j \in top : i <= j
    IN IF hits(first) = 0 THEN "Technology" ELSE table[first].sector

\* C26 as stated: each sector extractor returns the sector with the highest
\* keyword hit count over its table, the earliest declared among those tied,
\* and "Technology" when nothing matches.
C26_AsStated ==
    (evaluation.phase = "returned" /\ evaluation.fn \in SectorExtractors) =>
        evaluation.sector = StatedSector(tableOf(evaluation.fn), evaluation.content)

-----------------------------------------------------------------------------
(* detectCompanyGeography over the names: a name is given by the markers    *)
(* that are substrings of its lowercased form.                              *)

\* A marker that contains another one brings it along
ContainedMarkers ==
    {<<" sas", " sa">>, <<" sarl", " sa">>, <<" sasu", " sas">>, <<" sasu", " sa">>,
     <<".co.uk", "uk">>}

LowercasedNames ==
    {name \in SUBSET (FrenchMarkers \cup BritishMarkers \cup AmericanMarkers) :
        \A pair \in ContainedMarkers : pair[1] \in name => pair[2] \in name}

InitGeography ==
    /\ svcIdle
    /\ scoring = NoScoring
    /\ handler = NoRequest
    /\ \E name \in LowercasedNames :
          evaluation = [phase |-> "called", fn |-> "detectCompanyGeography",
                        name |-> name, geoContext |-> [country |-> ""]]

\* the function returns
DetectCompanyGeography ==
    /\ evaluation.phase = "called"
    /\ evaluation.fn = "detectCompanyGeography"
    /\ evaluation' = [evaluation EXCEPT !.phase = "returned",
                                        !.geoContext = geographyOf(evaluation.name)]
    /\ UNCHANGED <<svcVars, scoring, handler>>

NextGeography == DetectCompanyGeography

SpecGeography == InitGeography /\ [][NextGeography]_vars

\* C28: detectCompanyGeography returns the context of the first of the groups
\* France, United Kingdom, United States that has a marker in the lowercased
\* name (France/Europe for a name with both a French and an English-speaking
\* marker), and the International/Global context with English as default
\* language when no group has one.
C28_FirstGroupWins ==
    (evaluation.phase = "returned" /\ evaluation.fn = "detectCompanyGeography") =>
        LET name == evaluation.name
            geo == evaluation.geoContext
            french == \E marker \in FrenchMarkers : marker \in name
            british == \E marker \in BritishMarkers : marker \in name
            american == \E marker \in AmericanMarkers : marker \in name
        IN /\ french =>
                 geo.country = "France" /\ geo.region = "Europe" /\ geo.defaultLanguage = "fr"
           /\ (~french /\ british) =>
                 /\ geo.country = "United Kingdom" /\ geo.region = "Europe"
                 /\ geo.defaultLanguage = "en"
           /\ (~french /\ ~british /\ american) =>
                 /\ geo.country = "United States" /\ geo.region = "North America"
                 /\ geo.defaultLanguage = "en"
           /\ (~french /\ ~british /\ ~american) =>
                 /\ geo.country = "International" /\ geo.region = "Global"
                 /\ geo.language = "english" /\ geo.defaultLanguage = "en"

\* A name with a French marker, a British marker and an American marker
C28_Witness ==
    /\ evaluation.phase = "returned"
    /\ evaluation.fn = "detectCompanyGeography"
    /\ evaluation.name = {"france", "ltd", " inc"}
    /\ evaluation.geoContext.country = "France"
    /\ evaluation.geoContext.region = "Europe"

-----------------------------------------------------------------------------
(* performComparativeAnalysis: the rankings.  overallHealthScore is counted *)
(* in tenths; a profile without financialMetrics has healthScore 0.         *)

MaxCompanies == 3

\* Array.prototype.sort with the comparator (a, b) => b.key - a.key, which is
\* stable: the entries of the highest key first, in their order
RECURSIVE sortDescending(_)
sortDescending(entries) ==
    IF entries = <<>> THEN <<>>
    ELSE LET top == CHOOSE k \in {entries[i].key : i \in 1..Len(entries)} :
                        \A i \in 1..Len(entries) : entries[i].key <= k
         IN SelectSeq(entries, LAMBDA e : e.key = top)
            \o sortDescending(SelectSeq(entries, LAMBDA e : e.key # top))

\* .map((c, i) => ({ rank: i + 1, name: c.name, value: ... }))
ranked(entries) ==
    [i \in 1..Len(entries) |->
        [rank |-> i, name |-> entries[i].name, value |-> entries[i].value]]

\* companies.filter(c => c.employees)
withEmployees(companies) == SelectSeq(companies, LAMBDA c : c.employees # 0)

\* The array `companies` once the rankings are built: every sort is applied to
\* the array filter() has returned, so `companies` keeps its elements in place.
sortedBySizeInPlace(companies) ==
    LET order == sortDescending([i \in 1..Len(companies) |->
                                   [key |-> companies[i].employees, at |-> i]])
    IN [i \in 1..Len(companies) |-> companies[order[i].at]]
afterRankings(companies) == companies

\* Math.round of a number of tenths
roundTenths(x) == (x + 5) \div 10

\* analysis.rankings
rankingsOf(companies) ==
    LET sized == withEmployees(companies)
        earning == SelectSeq(companies, LAMBDA c : c.revenue # "")
        healthy == SelectSeq(companies, LAMBDA c : c.healthScore # 0)
    IN [bySize |->
           ranked(sortDescending(
              [i \in 1..Len(sized) |->
                  [key |-> sized[i].employees, name |-> sized[i].name,
                   value |-> sized[i].employees]])),
        byRevenue |->
           ranked(sortDescending(
              [i \in 1..Len(earning) |->
                  [key |-> parseRevenue(earning[i].revenue), name |-> earning[i].name,
                   value |-> earning[i].revenue]])),
        byHealthScore |->
           ranked(sortDescending(
              [i \in 1..Len(healthy) |->
                  [key |-> healthy[i].healthScore, name |-> healthy[i].name,
                   value |-> roundTenths(healthy[i].healthScore)]]))]

\* The scored profiles: the i-th of a list is named after its position
CompanyNamesByPosition == <<"Acme", "Globex", "Initech", "Umbrella">>
ScoredProfiles(i) ==
    [name : {CompanyNamesByPosition[i]},
     employees : {0, 30, 600},
     revenue : {"", "3M", "100M"},
     healthScore : {0, 654, 656}]

RECURSIVE ListsOf(_)
ListsOf(n) ==
    IF n = 0 THEN {<<>>}
    ELSE {Append(list, profile) : list \in ListsOf(n - 1), profile \in ScoredProfiles(n)}

CompanyLists == UNION {ListsOf(n) : n \in 0..MaxCompanies}

InitRanking ==
    /\ svcIdle
    /\ scoring = NoScoring
    /\ handler = NoRequest
    /\ \E companies \in CompanyLists :
          evaluation = [phase |-> "called", fn |-> "performComparativeAnalysis",
                        input |-> companies, companies |-> companies,
                        rankings |-> [bySize |-> <<>>, byRevenue |-> <<>>,
                                      byHealthScore |-> <<>>]]

\* The function returns: filter() has copied the list before each sort, so the
\* array it was given is as it was.
PerformComparativeAnalysis ==
    /\ evaluation.phase = "called"
    /\ evaluation.fn = "performComparativeAnalysis"
    /\ evaluation' = [evaluation EXCEPT !.phase = "returned",
                                        !.rankings = rankingsOf(evaluation.companies),
                                        !.companies = afterRankings(evaluation.companies)]
    /\ UNCHANGED <<svcVars, scoring, handler>>

NextRanking == PerformComparativeAnalysis

SpecRanking == InitRanking /\ [][NextRanking]_vars

\* The ranking holds exactly the named profiles, its ranks are its positions
\* and its keys do not increase
WellRanked(ranking, names, keys) ==
    /\ {ranking[i].name : i \in 1..Len(ranking)} = names
    /\ Len(ranking) = Cardinality(names)
    /\ \A i \in 1..Len(ranking) : ranking[i].rank = i
    /\ \A i \in 1..(Len(ranking) - 1) : keys[i] >= keys[i + 1]

\* The names of the profiles of the list that satisfy `present`
Having(list, present) == {list[i].name : i \in {j \in 1..Len(list) : present[j]}}

\* C29: bySize, byRevenue and byHealthScore each hold exactly the profiles that
\* have a value for the criterion, by non-increasing value, with ranks 1..n equal
\* to the positions; the list given to performComparativeAnalysis and its
\* profiles are as they were before the call.
C29_Rankings ==
    (evaluation.phase = "returned" /\ evaluation.fn = "performComparativeAnalysis") =>
        LET input == evaluation.input
            rankings == evaluation.rankings
        IN /\ WellRanked(rankings.bySize,
                         Having(input, [j \in 1..Len(input) |-> input[j].employees # 0]),
                         [i \in 1..Len(rankings.bySize) |-> rankings.bySize[i].value])
           /\ WellRanked(rankings.byRevenue,
                         Having(input, [j \in 1..Len(input) |-> input[j].revenue # ""]),
                         [i \in 1..Len(rankings.byRevenue) |->
                             parseRevenue(rankings.byRevenue[i].value)])
           /\ WellRanked(rankings.byHealthScore,
                         Having(input, [j \in 1..Len(input) |-> input[j].healthScore # 0]),
                         [i \in 1..Len(rankings.byHealthScore) |->
                             rankings.byHealthScore[i].value])
           /\ \A i \in 1..Len(rankings.bySize) :
                 \E j \in 1..Len(input) :
                    /\ input[j].name = rankings.bySize[i].name
                    /\ input[j].employees = rankings.bySize[i].value
           /\ evaluation.companies = input

\* Three profiles given in increasing order of size, one of them without
\* revenue: bySize reverses them and byRevenue holds two profiles, the one of
\* 100 millions before the one of 3 millions.
C29_Witness ==
    /\ evaluation.phase = "returned"
    /\ evaluation.fn = "performComparativeAnalysis"
    /\ Len(evaluation.input) = 3
    /\ evaluation.input[1].employees = 0
    /\ evaluation.input[2].employees = 30
    /\ evaluation.input[3].employees = 600
    /\ Len(evaluation.rankings.bySize) = 2
    /\ evaluation.rankings.bySize[1].name = "Initech"
    /\ Len(evaluation.rankings.byRevenue) = 2
    /\ evaluation.rankings.byRevenue[1].value = "100M"
    /\ evaluation.rankings.byRevenue[2].value = "3M"
    /\ evaluation.input[3].revenue = "3M"

-----------------------------------------------------------------------------
(* retryWithBackoff(operation, maxRetries, baseDelay).  The operation       *)
(* settles each time it is invoked, and a timer that has been set fires.    *)

MaxRetries == 3

RECURSIVE Pow2(_)
Pow2(n) == IF n = 0 THEN 1 ELSE 2 * Pow2(n - 1)

\* const delay = baseDelay * Math.pow(2, attempt)
linearDelay(baseDelay, attempt) == baseDelay * (attempt + 1)
backoffDelay(baseDelay, attempt) == baseDelay * Pow2(attempt)

OperationValues == {"value a", "value b"}
OperationErrors == {"error a", "error b"}

InitRetry ==
    /\ svcIdle
    /\ scoring = NoScoring
    /\ handler = NoRequest
    /\ \E maxRetries \in 0..MaxRetries, baseDelay \in {0, 1, 1000} :
          evaluation = [phase |-> "operation", fn |-> "retryWithBackoff",
                        maxRetries |-> maxRetries, baseDelay |-> baseDelay,
                        attempt |-> 0, lastError |-> "", delay |-> 0,
                        result |-> [shape |-> "none"],
                        \* history: the invocations of operation, the errors they
                        \* threw and the delays waited
                        invocations |-> 0, errors |-> <<>>, waits |-> <<>>]

\* `return await operation()`: the operation fulfils
OperationFulfils ==
    /\ evaluation.fn = "retryWithBackoff"
    /\ evaluation.phase = "operation"
    /\ \E value \in OperationValues :
          evaluation' = [evaluation EXCEPT
                            !.phase = "returned",
                            !.invocations = @ + 1,
                            !.result = [shape |-> "value", value |-> value]]
    /\ UNCHANGED <<svcVars, scoring, handler>>

\* the operation rejects: the catch block throws after the last attempt, and
\* sets the timer otherwise
OperationRejects ==
    /\ evaluation.fn = "retryWithBackoff"
    /\ evaluation.phase = "operation"
    /\ \E error \in OperationErrors :
          evaluation' =
             IF evaluation.attempt = evaluation.maxRetries
             THEN [evaluation EXCEPT
                      !.phase = "threw",
                      !.invocations = @ + 1,
                      !.errors = Append(@, error),
                      !.lastError = error,
                      !.result = [shape |-> "error", error |-> error]]
             ELSE [evaluation EXCEPT
                      !.phase = "timer",
                      !.invocations = @ + 1,
                      !.errors = Append(@, error),
                      !.lastError = error,
                      !.delay = backoffDelay(evaluation.baseDelay, evaluation.attempt)]
    /\ UNCHANGED <<svcVars, scoring, handler>>

\* the timer fires: the loop goes on to the next attempt
TimerFires ==
    /\ evaluation.fn = "retryWithBackoff"
    /\ evaluation.phase = "timer"
    /\ evaluation' = [evaluation EXCEPT
                         !.phase = "operation",
                         !.attempt = @ + 1,
                         !.waits = Append(@, evaluation.delay)]
    /\ UNCHANGED <<svcVars, scoring, handler>>

NextRetry == OperationFulfils \/ OperationRejects \/ TimerFires

SpecRetry == InitRetry /\ [][NextRetry]_vars /\ WF_vars(NextRetry)

RetrySettled == evaluation.phase \in {"returned", "threw"}

\* What holds of retryWithBackoff at each point of its execution
RetryContract ==
    /\ evaluation.invocations <= evaluation.maxRetries + 1
    /\ Len(evaluation.errors) \in {evaluation.invocations, evaluation.invocations - 1}
    /\ \A k \in 1..Len(evaluation.waits) :
          evaluation.waits[k] = evaluation.baseDelay * Pow2(k - 1)
    /\ Len(evaluation.waits) <= evaluation.maxRetries
    /\ evaluation.phase = "returned" =>
          /\ evaluation.result.shape = "value"
          /\ Len(evaluation.errors) = evaluation.invocations - 1
          /\ Len(evaluation.waits) = evaluation.invocations - 1
    /\ evaluation.phase = "threw" =>
          /\ evaluation.invocations = evaluation.maxRetries + 1
          /\ Len(evaluation.errors) = evaluation.invocations
          /\ evaluation.result.shape = "error"
          /\ evaluation.result.error = evaluation.errors[Len(evaluation.errors)]
          /\ Len(evaluation.waits) = evaluation.maxRetries

====
